---- MODULE Spec2Model ----
(***************************************************************************)
(* Verification model of the UEJsonCRDT document synchronisation core:     *)
(* UJsonCRDTDocument (JsonCRDTDocument.cpp) and the default conflict       *)
(* resolver (JsonCRDTDefaultConflictResolver.cpp).                         *)
(*                                                                         *)
(* A plain FString (an id, a path, a key) is a sequence of one-character   *)
(* strings.  A JSON value is a tagged record.  An FString that holds JSON  *)
(* text is a sequence of tokens, produced by Serialize and read back by    *)
(* Deserialize.  The payload of a JSON string is Chars(s) for a plain      *)
(* FString, Json(toks) for quoted JSON text and Time(n) for a formatted    *)
(* FDateTime.                                                              *)
(***************************************************************************)
EXTENDS Integers, Sequences, FiniteSets, TLC

(***************************************************************************)
(* Bounds of the model.                                                    *)
(***************************************************************************)
\* capacity of OperationHistory (100 in the constructor, scaled down)
MaxOperationHistory == 3
\* capacity of SnapshotHistory (10 in the constructor, scaled down)
MaxSnapshotHistory == 2
\* Spec enables the calls that increment Version while Version < MaxVersion
MaxVersion == 3
\* SpecPatch enables them while Version < MaxPatchedVersion
MaxPatchedVersion == 4
\* a patch carries at most MaxPatchLen operations
MaxPatchLen == 2
\* operation timestamps are drawn from 1..MaxTime
MaxTime == 2
\* the clock runs from 0 to MaxClock ticks
MaxClock == 1
\* the load requests that may be outstanding at a time
MaxLoads == 2
\* the paths looked up have at most MaxPathParts segments
MaxPathParts == 3
\* ticks per second of FDateTime (10^7, scaled down); FDateTime::ToString
\* keeps whole seconds
TicksPerSecond == 2

(***************************************************************************)
(* JSON values (FJsonValue / FJsonObject).                                 *)
(***************************************************************************)
Chars(s) == [chars |-> s]
Json(toks) == [json |-> toks]
Time(n) == [time |-> n]
\* one-character key or string
K(ch) == Chars(<<ch>>)

JStr(s) == [t |-> "str", s |-> s]
JNum(n) == [t |-> "num", n |-> n]
JArr(e) == [t |-> "arr", e |-> e]
\* f is the sequence of fields [k |-> key, v |-> value] in insertion order
JObj(f) == [t |-> "obj", f |-> f]
\* a null TSharedPtr
NullPtr == [t |-> "nullptr"]

HasField(o, key) == \E i \in 1..Len(o.f) : o.f[i].k = key

GetField(o, key) == o.f[CHOOSE i \in 1..Len(o.f) : o.f[i].k = key].v

\* TMap::Add: an existing key keeps its place and takes the new value
SetField(o, key, val) ==
    IF HasField(o, key)
    THEN JObj([i \in 1..Len(o.f) |->
                 IF o.f[i].k = key THEN [k |-> key, v |-> val] ELSE o.f[i]])
    ELSE JObj(Append(o.f, [k |-> key, v |-> val]))

(***************************************************************************)
(* JSON text: TJsonWriter / FJsonSerializer::Serialize.                    *)
(***************************************************************************)
Tok(c) == [c |-> c]
TokStr(s) == [c |-> "str", s |-> s]
TokNum(n) == [c |-> "num", n |-> n]

RECURSIVE Serialize(_)
RECURSIVE SerializeFields(_, _)
RECURSIVE SerializeElems(_, _)

SerializeFields(f, i) ==
    IF i > Len(f) THEN <<>>
    ELSE (IF i > 1 THEN <<Tok(",")>> ELSE <<>>)
         \o <<TokStr(f[i].k), Tok(":")>> \o Serialize(f[i].v)
         \o SerializeFields(f, i + 1)

SerializeElems(e, i) ==
    IF i > Len(e) THEN <<>>
    ELSE (IF i > 1 THEN <<Tok(",")>> ELSE <<>>)
         \o Serialize(e[i]) \o SerializeElems(e, i + 1)

Serialize(v) ==
    CASE v.t = "str" -> <<TokStr(v.s)>>
      [] v.t = "num" -> <<TokNum(v.n)>>
      [] v.t = "arr" -> <<Tok("[")>> \o SerializeElems(v.e, 1) \o <<Tok("]")>>
      [] v.t = "obj" -> <<Tok("{")>> \o SerializeFields(v.f, 1) \o <<Tok("}")>>

(***************************************************************************)
(* JSON text: TJsonReader / FJsonSerializer::Deserialize.  A parse result  *)
(* is [ok, v, n]: n is the index of the first token not consumed.          *)
(***************************************************************************)
ParseFail == [ok |-> FALSE, v |-> NullPtr, n |-> 0]

RECURSIVE ParseValue(_, _)
RECURSIVE ParseMembers(_, _, _)
RECURSIVE ParseElems(_, _, _)

ParseMembers(toks, i, acc) ==
    IF i + 2 > Len(toks) \/ toks[i].c # "str" \/ toks[i + 1].c # ":"
    THEN ParseFail
    ELSE LET r == ParseValue(toks, i + 2) IN
         IF ~r.ok \/ r.n > Len(toks) THEN ParseFail
         ELSE LET o == SetField(acc, toks[i].s, r.v) IN
              CASE toks[r.n].c = "}" -> [ok |-> TRUE, v |-> o, n |-> r.n + 1]
                [] toks[r.n].c = "," -> ParseMembers(toks, r.n + 1, o)
                [] OTHER -> ParseFail

ParseElems(toks, i, acc) ==
    LET r == ParseValue(toks, i) IN
    IF ~r.ok \/ r.n > Len(toks) THEN ParseFail
    ELSE LET a == Append(acc, r.v) IN
         CASE toks[r.n].c = "]" -> [ok |-> TRUE, v |-> JArr(a), n |-> r.n + 1]
           [] toks[r.n].c = "," -> ParseElems(toks, r.n + 1, a)
           [] OTHER -> ParseFail

ParseValue(toks, i) ==
    IF i > Len(toks) THEN ParseFail
    ELSE CASE toks[i].c = "str" -> [ok |-> TRUE, v |-> JStr(toks[i].s), n |-> i + 1]
           [] toks[i].c = "num" -> [ok |-> TRUE, v |-> JNum(toks[i].n), n |-> i + 1]
           [] toks[i].c = "{" ->
                IF i + 1 <= Len(toks) /\ toks[i + 1].c = "}"
                THEN [ok |-> TRUE, v |-> JObj(<<>>), n |-> i + 2]
                ELSE ParseMembers(toks, i + 1, JObj(<<>>))
           [] toks[i].c = "[" ->
                IF i + 1 <= Len(toks) /\ toks[i + 1].c = "]"
                THEN [ok |-> TRUE, v |-> JArr(<<>>), n |-> i + 2]
                ELSE ParseElems(toks, i + 1, <<>>)
           [] OTHER -> ParseFail

\* FJsonSerializer::Deserialize(Reader, TSharedPtr<FJsonObject>&): the text
\* must be one object and nothing else; the result is NullPtr on failure
Deserialize(toks) ==
    LET r == ParseValue(toks, 1) IN
    IF r.ok /\ r.v.t = "obj" /\ r.n = Len(toks) + 1 THEN r.v ELSE NullPtr

(***************************************************************************)
(* FString helpers used by the path resolver.                              *)
(***************************************************************************)
RECURSIVE SplitFrom(_, _, _, _)
\* FString::ParseIntoArray(Parts, "/") with the default InCullEmpty = true
SplitFrom(s, i, cur, acc) ==
    IF i > Len(s)
    THEN (IF cur = <<>> THEN acc ELSE Append(acc, cur))
    ELSE IF s[i] = "/"
         THEN SplitFrom(s, i + 1, <<>>, IF cur = <<>> THEN acc ELSE Append(acc, cur))
         ELSE SplitFrom(s, i + 1, Append(cur, s[i]), acc)

ParseIntoArray(s) == SplitFrom(s, 1, <<>>, <<>>)

RECURSIVE ReplaceFrom(_, _, _, _)
\* FString::ReplaceInline(From, To) for a two-character From, left to right
ReplaceFrom(s, i, from, to) ==
    IF i > Len(s) THEN <<>>
    ELSE IF i < Len(s) /\ s[i] = from[1] /\ s[i + 1] = from[2]
         THEN to \o ReplaceFrom(s, i + 2, from, to)
         ELSE <<s[i]>> \o ReplaceFrom(s, i + 1, from, to)

ReplaceInline(s, from, to) == ReplaceFrom(s, 1, from, to)

DigitValue(c) ==
    CASE c = "0" -> 0 [] c = "1" -> 1 [] c = "2" -> 2 [] c = "3" -> 3
      [] c = "4" -> 4 [] c = "5" -> 5 [] c = "6" -> 6 [] c = "7" -> 7
      [] c = "8" -> 8 [] c = "9" -> 9 [] OTHER -> -1

RECURSIVE AtoiFrom(_, _, _)
AtoiFrom(s, i, acc) ==
    IF i > Len(s) \/ DigitValue(s[i]) < 0 THEN acc
    ELSE AtoiFrom(s, i + 1, acc * 10 + DigitValue(s[i]))

\* FCString::Atoi: an optional sign, then the leading digits; 0 when none
Atoi(s) ==
    IF s # <<>> /\ s[1] = "-" THEN 0 - AtoiFrom(s, 2, 0) ELSE AtoiFrom(s, 1, 0)

(***************************************************************************)
(* UJsonCRDTDocument::GetValueAtPath.                                      *)
(***************************************************************************)
RECURSIVE WalkPath(_, _, _)
\* the loop over PathParts; cur is CurrentValue, i the (1-based) part index
WalkPath(cur, parts, i) ==
    IF i > Len(parts) THEN cur
    ELSE LET Part == ReplaceInline(ReplaceInline(parts[i], <<"~", "1">>, <<"/">>),
                                   <<"~", "0">>, <<"~">>) IN
         CASE cur.t = "obj" ->
                IF ~HasField(cur, Chars(Part)) THEN NullPtr
                ELSE WalkPath(GetField(cur, Chars(Part)), parts, i + 1)
           [] cur.t = "arr" ->
                LET Index == Atoi(Part) IN
                IF Index < 0 \/ Index >= Len(cur.e) THEN NullPtr
                ELSE WalkPath(cur.e[Index + 1], parts, i + 1)
           [] OTHER ->
                IF i < Len(parts) THEN NullPtr
                ELSE WalkPath(cur, parts, i + 1)

GetValueAtPath(JsonObject, Path) ==
    IF JsonObject = NullPtr \/ Path = <<>> THEN NullPtr
    ELSE LET PathCopy == IF Path[1] = "/" THEN Tail(Path) ELSE Path
             PathParts == ParseIntoArray(PathCopy)
         IN  IF PathParts = <<>> THEN JsonObject
             ELSE WalkPath(JsonObject, PathParts, 1)

(***************************************************************************)
(* The document and its surroundings.                                      *)
(*                                                                         *)
(* A call runs on a context c:                                             *)
(*   c.d       the fields of the UJsonCRDTDocument                         *)
(*   c.files   the local storage, one file per document id                 *)
(*   c.now     FDateTime::UtcNow(), in ticks                               *)
(*   c.disk    how the file system answers during this call                *)
(*   c.logging bLoggingEnabled of the logger                               *)
(*   c.ev      what the call has broadcast and logged so far               *)
(* An operator that returns a value yields [c |-> context, ret |-> value]. *)
(***************************************************************************)
Doc1 == <<"d", "1">>
Doc2 == <<"d", "2">>
DocIds == {Doc1, Doc2}
\* the DocumentID of a document that was never initialized
NoId == <<>>
\* GetLocalStoragePath: one file per DocumentID
FileIds == DocIds \cup {NoId}


Strategies == {"LastWriterWins", "LocalWins", "RemoteWins", "Custom"}

DiskStates == {"ok", "nodir", "nowrite", "noread"}

NoFile == [exists |-> FALSE, text |-> <<>>]

\* the state a document is in after its constructor
NewDocument ==
    [ DocumentID       |-> <<>>,
      Version          |-> 1,
      Content          |-> JObj(<<>>),
      OperationHistory |-> <<>>,
      SnapshotHistory  |-> <<>>,
      bAutoLocalSave   |-> FALSE,
      LastErrorMessage |-> "",
      ConflictStrategy |-> "LastWriterWins",
      ConflictResolver |-> [kind |-> "Default", Strategy |-> "LastWriterWins"] ]

\* the state a sync manager is in after its constructor: no transport.
\* Requests, Patches and Loads are the save requests, the patches and the
\* load requests handed to the transport and not answered yet (the loads in
\* the order they were made, one entry per request); Documents is
\* the registry, in the order of insertion: pairs of a key and the document
\* object registered under it (1 or 2)
NewSyncManager ==
    [ Transport               |-> FALSE,
      Requests                |-> {},
      Patches                 |-> {},
      Loads                   |-> <<>>,
      Documents               |-> <<>>,
      DefaultConflictStrategy |-> "LastWriterWins" ]

Emit(c, e) == [c EXCEPT !.ev = Append(@, e)]

SetLastErrorMessage(c, ErrorMessage) ==
    [c EXCEPT !.d.LastErrorMessage = ErrorMessage]

GetContentAsString(c) == Serialize(c.d.Content)

\* FDateTime::ToString and FDateTime::Parse
DateTimeToString(ticks) == Time(ticks \div TicksPerSecond)
DateTimeParse(p) == p.time * TicksPerSecond

CreateSnapshot(c) ==
    [ DocumentID |-> c.d.DocumentID,
      Version    |-> c.d.Version,
      Timestamp  |-> c.now,
      Content    |-> GetContentAsString(c) ]

CreateAndAddSnapshot(c) ==
    LET added == Append(c.d.SnapshotHistory, CreateSnapshot(c))
        n     == Len(added)
    IN  [c EXCEPT !.d.SnapshotHistory =
            IF n > MaxSnapshotHistory
            THEN SubSeq(added, n - MaxSnapshotHistory + 1, n)
            ELSE added]

(***************************************************************************)
(* UJsonCRDTDocument::SaveLocally and NotifyDocumentChanged.               *)
(***************************************************************************)
SnapshotToJson(Snapshot) ==
    JObj(<< [k |-> Chars(<<"documentId">>), v |-> JStr(Chars(Snapshot.DocumentID))],
            [k |-> Chars(<<"version">>),    v |-> JNum(Snapshot.Version)],
            [k |-> Chars(<<"timestamp">>),  v |-> JStr(DateTimeToString(Snapshot.Timestamp))],
            [k |-> Chars(<<"content">>),    v |-> JStr(Json(Snapshot.Content))] >>)

SaveDataOf(c) ==
    LET base == JObj(<< [k |-> Chars(<<"documentId">>), v |-> JStr(Chars(c.d.DocumentID))],
                        [k |-> Chars(<<"version">>),    v |-> JNum(c.d.Version)],
                        [k |-> Chars(<<"timestamp">>),  v |-> JStr(DateTimeToString(c.now))],
                        [k |-> Chars(<<"content">>),    v |-> c.d.Content] >>)
        hist == c.d.SnapshotHistory
    IN  IF Len(hist) > 0
        THEN SetField(base, Chars(<<"latestSnapshot">>), SnapshotToJson(hist[Len(hist)]))
        ELSE base

\* variant: a write that fails leaves an empty file behind
SaveLocally_TruncatesOnFailure(c) ==
    IF c.disk = "nodir"
    THEN [c |-> SetLastErrorMessage(c, "Failed to create directory"), ret |-> FALSE]
    ELSE IF c.disk = "nowrite"
    THEN [c |-> SetLastErrorMessage(
                    [c EXCEPT !.files[c.d.DocumentID] = [exists |-> TRUE, text |-> <<>>]],
                    "Failed to save document to file"),
          ret |-> FALSE]
    ELSE [c |-> Emit([c EXCEPT !.files[c.d.DocumentID] =
                         [exists |-> TRUE, text |-> Serialize(SaveDataOf(c))]],
                     [e |-> "SavedLocally", version |-> c.d.Version]),
          ret |-> TRUE]

\* variant: a record of a higher version is not overwritten
SaveLocally_KeepsNewerRecord(c) ==
    LET file == c.files[c.d.DocumentID] IN
    IF c.disk = "nodir"
    THEN [c |-> SetLastErrorMessage(c, "Failed to create directory"), ret |-> FALSE]
    ELSE IF c.disk = "nowrite"
    THEN [c |-> SetLastErrorMessage(c, "Failed to save document to file"), ret |-> FALSE]
    ELSE IF /\ file.exists
            /\ GetField(Deserialize(file.text), Chars(<<"version">>)).n > c.d.Version
    THEN [c |-> c, ret |-> TRUE]
    ELSE [c |-> Emit([c EXCEPT !.files[c.d.DocumentID] =
                         [exists |-> TRUE, text |-> Serialize(SaveDataOf(c))]],
                     [e |-> "SavedLocally", version |-> c.d.Version]),
          ret |-> TRUE]

SaveLocally(c) ==
    IF c.disk = "nodir"
    THEN [c |-> SetLastErrorMessage(c, "Failed to create directory"), ret |-> FALSE]
    ELSE IF c.disk = "nowrite"
    THEN [c |-> SetLastErrorMessage(c, "Failed to save document to file"), ret |-> FALSE]
    ELSE [c |-> Emit([c EXCEPT !.files[c.d.DocumentID] =
                         [exists |-> TRUE, text |-> Serialize(SaveDataOf(c))]],
                     [e |-> "SavedLocally", version |-> c.d.Version]),
          ret |-> TRUE]

\* variant: the change is announced but never saved
NotifyDocumentChanged_NoSave(c) ==
    Emit(c, [e |-> "OnDocumentChanged", id |-> c.d.DocumentID,
             version |-> c.d.Version])

NotifyDocumentChanged(c) ==
    LET c1 == Emit(c, [e |-> "OnDocumentChanged", id |-> c.d.DocumentID,
                       version |-> c.d.Version])
    IN  IF c1.d.bAutoLocalSave THEN SaveLocally(c1).c ELSE c1

(***************************************************************************)
(* UJsonCRDTDocument::SetContent and SetContentFromString.                 *)
(***************************************************************************)
\* variant: a successful call clears the last error message
SetContent_ClearsError(c, JsonObject) ==
    IF JsonObject = NullPtr
    THEN [c |-> c, ret |-> FALSE]
    ELSE LET c1 == [c EXCEPT !.d.Content = JsonObject, !.d.Version = @ + 1,
                             !.d.LastErrorMessage = ""]
         IN  [c |-> NotifyDocumentChanged(CreateAndAddSnapshot(c1)), ret |-> TRUE]

SetContent(c, JsonObject) ==
    IF JsonObject = NullPtr
    THEN [c |-> c, ret |-> FALSE]
    ELSE LET c1 == [c EXCEPT !.d.Content = JsonObject, !.d.Version = @ + 1]
         IN  [c |-> NotifyDocumentChanged(CreateAndAddSnapshot(c1)), ret |-> TRUE]

\* variant: a text that does not parse resets the content to an empty object
SetContentFromString_ResetsOnFailure(c, JsonString) ==
    LET JsonObject == Deserialize(JsonString) IN
    IF JsonObject # NullPtr
    THEN SetContent(c, JsonObject)
    ELSE [c |-> SetContent(c, JObj(<<>>)).c, ret |-> FALSE]

SetContentFromString(c, JsonString) ==
    LET JsonObject == Deserialize(JsonString) IN
    IF JsonObject # NullPtr
    THEN SetContent(c, JsonObject)
    ELSE [c |-> c, ret |-> FALSE]

(***************************************************************************)
(* FJsonCRDTDefaultConflictResolver.                                       *)
(***************************************************************************)
\* variant: a tie goes to the local side
ResolveLastWriterWins_TieLocal(Conflict) ==
    [ Conflict |-> [Conflict EXCEPT
                      !.ResolvedValue =
                          IF Conflict.LocalOperation.Timestamp >= Conflict.RemoteOperation.Timestamp
                          THEN Conflict.LocalValue
                          ELSE Conflict.RemoteValue,
                      !.bResolved = TRUE],
      ret |-> TRUE ]

ResolveLastWriterWins(Conflict) ==
    [ Conflict |-> [Conflict EXCEPT
                      !.ResolvedValue =
                          IF Conflict.LocalOperation.Timestamp > Conflict.RemoteOperation.Timestamp
                          THEN Conflict.LocalValue
                          ELSE Conflict.RemoteValue,
                      !.bResolved = TRUE],
      ret |-> TRUE ]

ResolveLocalWins(Conflict) ==
    [ Conflict |-> [Conflict EXCEPT !.ResolvedValue = Conflict.LocalValue,
                                    !.bResolved = TRUE],
      ret |-> TRUE ]

ResolveRemoteWins(Conflict) ==
    [ Conflict |-> [Conflict EXCEPT !.ResolvedValue = Conflict.RemoteValue,
                                    !.bResolved = TRUE],
      ret |-> TRUE ]

DefaultResolveConflict(Strategy, Conflict) ==
    CASE Strategy = "LastWriterWins" -> ResolveLastWriterWins(Conflict)
      [] Strategy = "LocalWins"      -> ResolveLocalWins(Conflict)
      [] Strategy = "RemoteWins"     -> ResolveRemoteWins(Conflict)
      [] OTHER                       -> [Conflict |-> Conflict, ret |-> FALSE]

\* a resolver that is not the default one: FMyCustomConflictResolver of
\* Examples/ConflictResolution.cpp, whose GetStrategy returns Custom
CustomResolver == [kind |-> "Custom", Strategy |-> "Custom"]

\* a default resolver
DefaultResolver(Strategy) == [kind |-> "Default", Strategy |-> Strategy]

\* FMyCustomConflictResolver::ResolveConflict at a path that contains none
\* of "/priority", "/lastModified", "/name": two JSON strings are merged
\* into "local + remote", anything else resolves to the remote value
CustomResolveConflict(Conflict) ==
    LET l == Conflict.LocalValue
        r == Conflict.RemoteValue
        isStr(v) == Len(v) = 1 /\ v[1].c = "str"
    IN  [ Conflict |-> [Conflict EXCEPT
                          !.ResolvedValue =
                              IF isStr(l) /\ isStr(r)
                              THEN <<TokStr(Chars(l[1].s.chars \o <<" ", "+", " ">>
                                                    \o r[1].s.chars))>>
                              ELSE r,
                          !.bResolved = TRUE],
          ret |-> TRUE ]

\* UJsonCRDTDocument::ResolveConflict: the installed resolver decides
ResolveConflict(c, Conflict) ==
    IF c.d.ConflictResolver.kind = "Custom"
    THEN CustomResolveConflict(Conflict)
    ELSE DefaultResolveConflict(c.d.ConflictResolver.Strategy, Conflict)

\* variant: a resolver that is not the default one is replaced by a default
\* resolver of the strategy (the cast is checked)
SetConflictStrategy_CheckedCast(c, Strategy, overwritten) ==
    [c EXCEPT !.d.ConflictStrategy = Strategy,
              !.d.ConflictResolver =
                  IF @.Strategy # Strategy
                  THEN DefaultResolver(Strategy)
                  ELSE @]

\* UJsonCRDTDocument::SetConflictStrategy.  StaticCastSharedPtr gives a
\* valid pointer for every valid resolver, so SetStrategy is also called on
\* a resolver that is not a FJsonCRDTDefaultConflictResolver and writes a
\* member that this object does not have: the object stays installed, and
\* the strategy it reports is either untouched or, if its GetStrategy
\* reads the place that was written, the new one (overwritten).
SetConflictStrategy(c, Strategy, overwritten) ==
    [c EXCEPT !.d.ConflictStrategy = Strategy,
              !.d.ConflictResolver =
                  IF @.Strategy # Strategy
                  THEN IF @.kind = "Default" \/ overwritten
                       THEN [@ EXCEPT !.Strategy = Strategy]
                       ELSE @
                  ELSE @]

\* UJsonCRDTDocument::SetConflictResolver; NullPtr is an invalid pointer
SetConflictResolver(c, InConflictResolver) ==
    IF InConflictResolver # NullPtr
    THEN [c EXCEPT !.d.ConflictResolver = InConflictResolver,
                   !.d.ConflictStrategy = InConflictResolver.Strategy]
    ELSE c

(***************************************************************************)
(* UJsonCRDTDocument::ApplyPatch.                                          *)
(***************************************************************************)
\* a default-constructed FJsonCRDTConflict
EmptyConflict ==
    [ Path |-> <<>>, LocalValue |-> <<>>, RemoteValue |-> <<>>,
      LocalOperation |-> <<>>, RemoteOperation |-> <<>>,
      ResolvedValue |-> <<>>, bResolved |-> FALSE ]

\* every case of the switch is an empty stub: the content is left as it is
ApplyOperation(c, Operation) ==
    CASE Operation.Type = "Add"     -> c
      [] Operation.Type = "Remove"  -> c
      [] Operation.Type = "Replace" -> c
      [] Operation.Type = "Move"    -> c
      [] Operation.Type = "Copy"    -> c
      [] Operation.Type = "Test"    -> c
      [] OTHER                      -> c

LogOperation(c, Operation, OldValue, NewValue, bHadConflict, Conflict) ==
    IF ~c.logging THEN c
    ELSE Emit(c, [ e             |-> "LogOperation",
                   DocumentID    |-> c.d.DocumentID,
                   OperationType |-> Operation.Type,
                   Path          |-> Operation.Path,
                   OldValue      |-> OldValue,
                   NewValue      |-> NewValue,
                   bHadConflict  |-> bHadConflict,
                   Conflict      |-> IF bHadConflict THEN Conflict ELSE EmptyConflict,
                   ClientID      |-> Operation.ClientID,
                   Source        |-> "Remote" ])

\* variant: the history is never trimmed
AddToOperationHistory_NoTrim(c, Operation) ==
    [c EXCEPT !.d.OperationHistory = Append(@, Operation)]

\* OperationHistory.Add followed by the capacity check
AddToOperationHistory(c, Operation) ==
    LET added == Append(c.d.OperationHistory, Operation) IN
    [c EXCEPT !.d.OperationHistory =
        IF Len(added) > MaxOperationHistory THEN Tail(added) ELSE added]

RECURSIVE ScanOperationHistory(_, _, _, _, _)
\* the loop "for (i = OperationHistory.Num() - 1; i >= 0; --i)" of ApplyPatch,
\* with i counted from 1; the continue statement in its body goes on with
\* the next i of this loop
ScanOperationHistory(c, Operation, OldValue, i, bHadConflict) ==
    IF i < 1 THEN [c |-> c, bHadConflict |-> bHadConflict]
    ELSE LET LocalOperation == c.d.OperationHistory[i] IN
         IF /\ LocalOperation.Path = Operation.Path
            /\ LocalOperation.Type = "Replace"
            /\ LocalOperation.Value # Operation.Value
         THEN LET Conflict == [ Path            |-> Operation.Path,
                                LocalValue      |-> LocalOperation.Value,
                                RemoteValue     |-> Operation.Value,
                                LocalOperation  |-> LocalOperation,
                                RemoteOperation |-> Operation,
                                ResolvedValue   |-> <<>>,
                                bResolved       |-> FALSE ]
                  r == ResolveConflict(c, Conflict)
              IN  IF r.ret
                  THEN LET ResolvedOperation ==
                               [Operation EXCEPT !.Value = r.Conflict.ResolvedValue]
                           c1 == ApplyOperation(c, ResolvedOperation)
                           c2 == Emit(c1, [e |-> "OnConflictDetected",
                                           Conflict |-> r.Conflict])
                           c3 == LogOperation(c2, ResolvedOperation, OldValue,
                                              r.Conflict.ResolvedValue, TRUE, r.Conflict)
                           c4 == AddToOperationHistory(c3, ResolvedOperation)
                       IN  ScanOperationHistory(c4, Operation, OldValue, i - 1, TRUE)
                  ELSE ScanOperationHistory(c, Operation, OldValue, i - 1, TRUE)
         ELSE ScanOperationHistory(c, Operation, OldValue, i - 1, bHadConflict)

\* variant: a Test operation is logged but not recorded in the history
ApplyPatchOperation_TestUnrecorded(c, Operation) ==
    LET CurrentValue == IF Operation.Type \in {"Replace", "Remove", "Test"}
                        THEN GetValueAtPath(c.d.Content, Operation.Path)
                        ELSE NullPtr
        OldValue == IF CurrentValue # NullPtr THEN Serialize(CurrentValue) ELSE <<>>
        scan == IF Operation.Type = "Replace"
                THEN ScanOperationHistory(c, Operation, OldValue,
                                          Len(c.d.OperationHistory), FALSE)
                ELSE [c |-> c, bHadConflict |-> FALSE]
    IN  IF ~scan.bHadConflict
        THEN LET c1 == ApplyOperation(scan.c, Operation)
                 c2 == LogOperation(c1, Operation, OldValue, Operation.Value,
                                    FALSE, EmptyConflict)
             IN  IF Operation.Type = "Test" THEN c2
                 ELSE AddToOperationHistory(c2, Operation)
        ELSE scan.c

\* variant: the history is scanned for an Add operation too
ApplyPatchOperation_ScansAdd(c, Operation) ==
    LET CurrentValue == IF Operation.Type \in {"Replace", "Remove", "Test"}
                        THEN GetValueAtPath(c.d.Content, Operation.Path)
                        ELSE NullPtr
        OldValue == IF CurrentValue # NullPtr THEN Serialize(CurrentValue) ELSE <<>>
        scan == IF Operation.Type \in {"Replace", "Add"}
                THEN ScanOperationHistory(c, Operation, OldValue,
                                          Len(c.d.OperationHistory), FALSE)
                ELSE [c |-> c, bHadConflict |-> FALSE]
    IN  IF ~scan.bHadConflict
        THEN LET c1 == ApplyOperation(scan.c, Operation)
                 c2 == LogOperation(c1, Operation, OldValue, Operation.Value,
                                    FALSE, EmptyConflict)
             IN  AddToOperationHistory(c2, Operation)
        ELSE scan.c

\* the body of the loop over Patch.Operations
ApplyPatchOperation(c, Operation) ==
    LET CurrentValue == IF Operation.Type \in {"Replace", "Remove", "Test"}
                        THEN GetValueAtPath(c.d.Content, Operation.Path)
                        ELSE NullPtr
        OldValue == IF CurrentValue # NullPtr THEN Serialize(CurrentValue) ELSE <<>>
        scan == IF Operation.Type = "Replace"
                THEN ScanOperationHistory(c, Operation, OldValue,
                                          Len(c.d.OperationHistory), FALSE)
                ELSE [c |-> c, bHadConflict |-> FALSE]
    IN  IF ~scan.bHadConflict
        THEN LET c1 == ApplyOperation(scan.c, Operation)
                 c2 == LogOperation(c1, Operation, OldValue, Operation.Value,
                                    FALSE, EmptyConflict)
             IN  AddToOperationHistory(c2, Operation)
        ELSE scan.c

RECURSIVE ApplyPatchOperations(_, _, _)
ApplyPatchOperations(c, Operations, k) ==
    IF k > Len(Operations) THEN c
    ELSE ApplyPatchOperations(ApplyPatchOperation(c, Operations[k]), Operations, k + 1)

\* variant: the version counts the operations instead of the patches
ApplyPatch_VersionPerOperation(c, Patch) ==
    IF Patch.DocumentID # c.d.DocumentID
    THEN [c |-> c, ret |-> FALSE]
    ELSE LET c1 == ApplyPatchOperations(c, Patch.Operations, 1)
             c2 == [c1 EXCEPT !.d.Version = @ + Len(Patch.Operations)]
         IN  [c |-> NotifyDocumentChanged(CreateAndAddSnapshot(c2)), ret |-> TRUE]

\* variant: the document id of the patch is not validated
ApplyPatch_NoIdCheck(c, Patch) ==
    LET c1 == ApplyPatchOperations(c, Patch.Operations, 1)
        c2 == [c1 EXCEPT !.d.Version = @ + 1]
    IN  [c |-> NotifyDocumentChanged(CreateAndAddSnapshot(c2)), ret |-> TRUE]

\* variant: a patch based on another version than the document's is refused
ApplyPatch_ChecksBaseVersion(c, Patch) ==
    IF Patch.DocumentID # c.d.DocumentID \/ Patch.BaseVersion # c.d.Version
    THEN [c |-> c, ret |-> FALSE]
    ELSE LET c1 == ApplyPatchOperations(c, Patch.Operations, 1)
             c2 == [c1 EXCEPT !.d.Version = @ + 1]
         IN  [c |-> NotifyDocumentChanged(CreateAndAddSnapshot(c2)), ret |-> TRUE]

ApplyPatch(c, Patch) ==
    IF Patch.DocumentID # c.d.DocumentID
    THEN [c |-> c, ret |-> FALSE]
    ELSE LET c1 == ApplyPatchOperations(c, Patch.Operations, 1)
             c2 == [c1 EXCEPT !.d.Version = @ + 1]
         IN  [c |-> NotifyDocumentChanged(CreateAndAddSnapshot(c2)), ret |-> TRUE]

(***************************************************************************)
(* UJsonCRDTDocument::RestoreFromSnapshot.                                 *)
(*                                                                         *)
(* Snapshot is passed by reference.  ref = 0 says the caller owns the      *)
(* struct; ref = i > 0 says it is SnapshotHistory[i] itself, which         *)
(* SetContent changes under the reference (Add, RemoveAt).  Reading        *)
(* Snapshot.Version afterwards then gives either the bytes as they were    *)
(* (stale) or the entry that now sits at position i; past the end of the   *)
(* shortened array only the old bytes are left.                            *)
(***************************************************************************)
\* variant: the snapshot's DocumentID is not validated
RestoreFromSnapshot_NoIdCheck(c, Snapshot, ref, stale) ==
    LET r == SetContentFromString(c, Snapshot.Content) IN
    IF ~r.ret
    THEN [c |-> r.c, ret |-> FALSE]
    ELSE [c |-> NotifyDocumentChanged([r.c EXCEPT !.d.Version = Snapshot.Version]),
          ret |-> TRUE]

\* variant: the version of the snapshot is not taken over
RestoreFromSnapshot_KeepsIncrement(c, Snapshot, ref, stale) ==
    IF Snapshot.DocumentID # c.d.DocumentID
    THEN [c |-> c, ret |-> FALSE]
    ELSE LET r == SetContentFromString(c, Snapshot.Content) IN
         IF ~r.ret
         THEN [c |-> r.c, ret |-> FALSE]
         ELSE [c |-> NotifyDocumentChanged(r.c), ret |-> TRUE]

RestoreFromSnapshot(c, Snapshot, ref, stale) ==
    IF Snapshot.DocumentID # c.d.DocumentID
    THEN [c |-> c, ret |-> FALSE]
    ELSE LET r == SetContentFromString(c, Snapshot.Content) IN
         IF ~r.ret
         THEN [c |-> r.c, ret |-> FALSE]
         ELSE LET SnapshotVersion ==
                      IF ref = 0 \/ stale \/ ref > Len(r.c.d.SnapshotHistory)
                      THEN Snapshot.Version
                      ELSE r.c.d.SnapshotHistory[ref].Version
                  c1 == [r.c EXCEPT !.d.Version = SnapshotVersion]
              IN  [c |-> NotifyDocumentChanged(c1), ret |-> TRUE]

(***************************************************************************)
(* UJsonCRDTDocument::LoadFromLocal.                                       *)
(***************************************************************************)
TryGetStringField(o, key) ==
    IF HasField(o, Chars(<<key>>)) /\ GetField(o, Chars(<<key>>)).t = "str"
    THEN [ok |-> TRUE, v |-> GetField(o, Chars(<<key>>)).s]
    ELSE [ok |-> FALSE, v |-> Chars(<<>>)]

TryGetNumberField(o, key) ==
    IF HasField(o, Chars(<<key>>)) /\ GetField(o, Chars(<<key>>)).t = "num"
    THEN [ok |-> TRUE, v |-> GetField(o, Chars(<<key>>)).n]
    ELSE [ok |-> FALSE, v |-> 0]

TryGetObjectField(o, key) ==
    IF HasField(o, Chars(<<key>>)) /\ GetField(o, Chars(<<key>>)).t = "obj"
    THEN [ok |-> TRUE, v |-> GetField(o, Chars(<<key>>))]
    ELSE [ok |-> FALSE, v |-> NullPtr]

\* the "latestSnapshot" block: the snapshot read from SnapshotObject is
\* added to SnapshotHistory unless its documentId is absent or different
LoadLatestSnapshot(c, LoadData) ==
    LET so == TryGetObjectField(LoadData, "latestSnapshot") IN
    IF ~so.ok THEN c
    ELSE LET id == TryGetStringField(so.v, "documentId") IN
         IF ~id.ok \/ id.v # Chars(c.d.DocumentID) THEN c
         ELSE LET ver  == TryGetNumberField(so.v, "version")
                  ts   == TryGetStringField(so.v, "timestamp")
                  text == TryGetStringField(so.v, "content")
                  Snapshot ==
                      [ DocumentID |-> c.d.DocumentID,
                        Version    |-> IF ver.ok THEN ver.v ELSE 0,
                        Timestamp  |-> IF ts.ok /\ "time" \in DOMAIN ts.v
                                       THEN DateTimeParse(ts.v) ELSE c.now,
                        Content    |-> IF text.ok /\ "json" \in DOMAIN text.v
                                       THEN text.v.json ELSE <<>> ]
              IN  [c EXCEPT !.d.SnapshotHistory = Append(@, Snapshot)]

\* variant: the snapshot of the record is not taken into SnapshotHistory
LoadFromLocal_KeepsSnapshots(c) ==
    LET file == c.files[c.d.DocumentID] IN
    IF ~file.exists
    THEN [c |-> SetLastErrorMessage(c, "Local file does not exist"), ret |-> FALSE]
    ELSE IF c.disk = "noread"
    THEN [c |-> SetLastErrorMessage(c, "Failed to load document from file"), ret |-> FALSE]
    ELSE LET LoadData == Deserialize(file.text) IN
         IF LoadData = NullPtr
         THEN [c |-> SetLastErrorMessage(c, "Failed to deserialize document data"),
               ret |-> FALSE]
         ELSE LET id == TryGetStringField(LoadData, "documentId") IN
              IF ~id.ok \/ id.v # Chars(c.d.DocumentID)
              THEN [c |-> SetLastErrorMessage(c, "Document ID mismatch"), ret |-> FALSE]
              ELSE LET ver == TryGetNumberField(LoadData, "version")
                       c1  == IF ver.ok THEN [c EXCEPT !.d.Version = ver.v] ELSE c
                       co  == TryGetObjectField(LoadData, "content")
                   IN  IF ~co.ok
                       THEN [c |-> SetLastErrorMessage(c1,
                                       "Failed to get content from loaded data"),
                             ret |-> FALSE]
                       ELSE LET c2 == [c1 EXCEPT !.d.Content = co.v]
                                c3 == c2
                            IN  [c |-> NotifyDocumentChanged(c3), ret |-> TRUE]

LoadFromLocal(c) ==
    LET file == c.files[c.d.DocumentID] IN
    IF ~file.exists
    THEN [c |-> SetLastErrorMessage(c, "Local file does not exist"), ret |-> FALSE]
    ELSE IF c.disk = "noread"
    THEN [c |-> SetLastErrorMessage(c, "Failed to load document from file"), ret |-> FALSE]
    ELSE LET LoadData == Deserialize(file.text) IN
         IF LoadData = NullPtr
         THEN [c |-> SetLastErrorMessage(c, "Failed to deserialize document data"),
               ret |-> FALSE]
         ELSE LET id == TryGetStringField(LoadData, "documentId") IN
              IF ~id.ok \/ id.v # Chars(c.d.DocumentID)
              THEN [c |-> SetLastErrorMessage(c, "Document ID mismatch"), ret |-> FALSE]
              ELSE LET ver == TryGetNumberField(LoadData, "version")
                       c1  == IF ver.ok THEN [c EXCEPT !.d.Version = ver.v] ELSE c
                       co  == TryGetObjectField(LoadData, "content")
                   IN  IF ~co.ok
                       THEN [c |-> SetLastErrorMessage(c1,
                                       "Failed to get content from loaded data"),
                             ret |-> FALSE]
                       ELSE LET c2 == [c1 EXCEPT !.d.Content = co.v]
                                c3 == LoadLatestSnapshot(c2, LoadData)
                            IN  [c |-> NotifyDocumentChanged(c3), ret |-> TRUE]

(***************************************************************************)
(* UJsonCRDTDocument::RecoverDocument, SetAutoLocalSave, Initialize.       *)
(***************************************************************************)
\* variant: no return after a successful load
RecoverAfterLoad_NoEarlyReturn(l, stale) ==
    LET c0 == IF l.ret
              THEN Emit(l.c, [e |-> "OnDocumentRecovered", source |-> "LocalStorage"])
              ELSE l.c
        n  == Len(c0.d.SnapshotHistory)
        r  == IF n > 0
              THEN RestoreFromSnapshot(c0, c0.d.SnapshotHistory[n], n, stale)
              ELSE [c |-> c0, ret |-> FALSE]
    IN  IF r.ret
        THEN [c |-> Emit(r.c, [e |-> "OnDocumentRecovered", source |-> "Snapshot"]),
              ret |-> TRUE]
        ELSE [c |-> SetLastErrorMessage(r.c, "Failed to recover document from any source"),
              ret |-> FALSE]

\* what RecoverDocument does once LoadFromLocal has returned l
RecoverAfterLoad(l, stale) ==
    IF l.ret
    THEN [c |-> Emit(l.c, [e |-> "OnDocumentRecovered", source |-> "LocalStorage"]),
          ret |-> TRUE]
    ELSE LET n == Len(l.c.d.SnapshotHistory)
             r == IF n > 0
                  THEN RestoreFromSnapshot(l.c, l.c.d.SnapshotHistory[n], n, stale)
                  ELSE [c |-> l.c, ret |-> FALSE]
         IN  IF r.ret
             THEN [c |-> Emit(r.c, [e |-> "OnDocumentRecovered", source |-> "Snapshot"]),
                   ret |-> TRUE]
             ELSE [c |-> SetLastErrorMessage(r.c, "Failed to recover document from any source"),
                   ret |-> FALSE]

\* LoadFromLocal is called once, and the rest works on what it returned
RecoverDocument(c, stale) ==
    CHOOSE out \in {RecoverAfterLoad(l, stale) : l \in {LoadFromLocal(c)}} : TRUE

\* variant: enabling sets the flag and saves nothing
SetAutoLocalSave_FlagOnly(c, bEnable) ==
    [c EXCEPT !.d.bAutoLocalSave = bEnable]

SetAutoLocalSave(c, bEnable) ==
    LET c1 == [c EXCEPT !.d.bAutoLocalSave = bEnable] IN
    IF bEnable THEN SaveLocally(c1).c ELSE c1

\* variant: no initial snapshot is taken
Initialize_NoSnapshot(c, InDocumentID) ==
    [c EXCEPT !.d.DocumentID = InDocumentID]

Initialize(c, InDocumentID) ==
    CreateAndAddSnapshot([c EXCEPT !.d.DocumentID = InDocumentID])

(***************************************************************************)
(* UJsonCRDTSyncManager::SetTransport and SaveDocument.  s is the sync     *)
(* manager, Document the pointer it is given: null or the document of c.   *)
(***************************************************************************)
\* a pointer to the document
DocumentPtr == [t |-> "UJsonCRDTDocument"]

SetTransport(s, InTransport) == [s EXCEPT !.Transport = InTransport]

\* variant: without a transport the call returns before the local save
SaveDocument_TransportCheckFirst(c, s, Document) ==
    IF Document = NullPtr \/ ~s.Transport
    THEN [c |-> c, sync |-> s]
    ELSE LET c1 == SaveLocally(c).c
             DocumentData == [ DocumentID |-> c1.d.DocumentID,
                               Version    |-> c1.d.Version,
                               Content    |-> GetContentAsString(c1),
                               UpdatedAt  |-> c1.now ]
         IN  [c    |-> Emit(c1, [e |-> "TransportSaveDocument",
                                 DocumentData |-> DocumentData]),
              sync |-> [s EXCEPT !.Requests = @ \cup {DocumentData}]]

SaveDocument(c, s, Document) ==
    IF Document = NullPtr
    THEN [c |-> c, sync |-> s]
    ELSE LET c1 == SaveLocally(c).c IN
         IF ~s.Transport
         THEN [c |-> c1, sync |-> s]
         ELSE LET DocumentData == [ DocumentID |-> c1.d.DocumentID,
                                    Version    |-> c1.d.Version,
                                    Content    |-> GetContentAsString(c1),
                                    UpdatedAt  |-> c1.now ]
              IN  [c    |-> Emit(c1, [e |-> "TransportSaveDocument",
                                      DocumentData |-> DocumentData]),
                   sync |-> [s EXCEPT !.Requests = @ \cup {DocumentData}]]

(***************************************************************************)
(* The rest of UJsonCRDTSyncManager.  w is the context with both document  *)
(* objects in it; a document pointer is 0 (null), 1 or 2, and View(w, k)   *)
(* is w as the calls on object k see it (and back).                        *)
(***************************************************************************)
View(w, k) == IF k = 2 THEN [w EXCEPT !.d = w.d2, !.d2 = w.d] ELSE w

\* variant: the value of an existing key is kept
DocumentsAdd_KeepsFirst(Documents, DocumentID, k) ==
    IF \E i \in 1..Len(Documents) : Documents[i].key = DocumentID
    THEN Documents
    ELSE Append(Documents, [key |-> DocumentID, doc |-> k])

\* TMap::Add: the value of an existing key is replaced where it is
DocumentsAdd(Documents, DocumentID, k) ==
    IF \E i \in 1..Len(Documents) : Documents[i].key = DocumentID
    THEN [i \in 1..Len(Documents) |->
             IF Documents[i].key = DocumentID
             THEN [key |-> DocumentID, doc |-> k] ELSE Documents[i]]
    ELSE Append(Documents, [key |-> DocumentID, doc |-> k])

GetDocument(s, DocumentID) ==
    IF \E i \in 1..Len(s.Documents) : s.Documents[i].key = DocumentID
    THEN s.Documents[CHOOSE i \in 1..Len(s.Documents) :
                        s.Documents[i].key = DocumentID].doc
    ELSE 0

CreateDocument(w, s, Document, overwritten) ==
    IF Document = 0
    THEN [c |-> w, sync |-> s]
    ELSE LET c  == View(w, Document)
             s1 == [s EXCEPT !.Documents = DocumentsAdd(@, c.d.DocumentID, Document)]
             c1 == SetConflictStrategy(c, s.DefaultConflictStrategy, overwritten)
             r  == SaveDocument(c1, s1, DocumentPtr)
         IN  [c |-> View(r.c, Document), sync |-> r.sync]

LoadDocument(w, s, DocumentID) ==
    IF GetDocument(s, DocumentID) # 0 \/ ~s.Transport
    THEN [c |-> w, sync |-> s]
    ELSE [c |-> Emit(w, [e |-> "TransportLoadDocument", id |-> DocumentID]),
          sync |-> [s EXCEPT !.Loads = Append(@, DocumentID)]]

\* variant: the patch carries the version that follows the document's
SyncDocument_NextVersion(w, s, Document) ==
    IF Document = 0 \/ ~s.Transport
    THEN [c |-> w, sync |-> s]
    ELSE LET c == View(w, Document)
             SyncPatch == [ DocumentID  |-> c.d.DocumentID,
                            BaseVersion |-> c.d.Version + 1,
                            Operations  |-> <<>>,
                            Timestamp   |-> c.now,
                            ClientID    |-> <<>> ]
         IN  [c |-> Emit(w, [e |-> "TransportSendPatch", Patch |-> SyncPatch]),
              sync |-> [s EXCEPT !.Patches = @ \cup {SyncPatch}]]

SyncDocument(w, s, Document) ==
    IF Document = 0 \/ ~s.Transport
    THEN [c |-> w, sync |-> s]
    ELSE LET c == View(w, Document)
             SyncPatch == [ DocumentID  |-> c.d.DocumentID,
                            BaseVersion |-> c.d.Version,
                            Operations  |-> <<>>,
                            Timestamp   |-> c.now,
                            ClientID    |-> <<>> ]
         IN  [c |-> Emit(w, [e |-> "TransportSendPatch", Patch |-> SyncPatch]),
              sync |-> [s EXCEPT !.Patches = @ \cup {SyncPatch}]]

RECURSIVE RecoverDocumentsFrom(_, _, _, _, _)
\* the loop of RecoverAllDocuments from the i-th registry entry on
RecoverDocumentsFrom(w, s, i, stale, RecoveredCount) ==
    IF i > Len(s.Documents) THEN [c |-> w, sync |-> s, ret |-> RecoveredCount]
    ELSE LET k == s.Documents[i].doc IN
         CHOOSE out \in
             { RecoverDocumentsFrom(View(r.c, k), s, i + 1, stale,
                                    IF r.ret THEN RecoveredCount + 1 ELSE RecoveredCount) :
               r \in {RecoverDocument(View(w, k), stale)} } : TRUE

RecoverAllDocuments(w, s, stale) == RecoverDocumentsFrom(w, s, 1, stale, 0)

\* variant: a patch that cannot be applied is dropped
OnPatchReceived_NoRecovery(w, s, Patch, stale) ==
    LET Document == GetDocument(s, Patch.DocumentID) IN
    IF Document = 0
    THEN [c |-> w, sync |-> s]
    ELSE LET a == ApplyPatch(View(w, Document), Patch) IN
         IF a.ret
         THEN [c |-> View(Emit(SaveLocally(a.c).c,
                               [e |-> "OnSyncComplete", id |-> Patch.DocumentID]),
                          Document),
               sync |-> s]
         ELSE [c |-> View(a.c, Document), sync |-> s]

\* variant: the sync-complete notification comes before the local save
OnPatchReceived_NotifiesFirst(w, s, Patch, stale) ==
    LET Document == GetDocument(s, Patch.DocumentID) IN
    IF Document = 0
    THEN [c |-> w, sync |-> s]
    ELSE LET a == ApplyPatch(View(w, Document), Patch) IN
         IF a.ret
         THEN [c |-> View(SaveLocally(Emit(a.c, [e |-> "OnSyncComplete",
                                                 id |-> Patch.DocumentID])).c,
                          Document),
               sync |-> s]
         ELSE [c |-> View(RecoverDocument(a.c, stale).c, Document), sync |-> s]

\* variant: a patch for an unknown document is applied to the first
\* registered one
OnPatchReceived_UnknownToFirst(w, s, Patch, stale) ==
    LET Document == IF GetDocument(s, Patch.DocumentID) = 0 /\ s.Documents # <<>>
                    THEN s.Documents[1].doc
                    ELSE GetDocument(s, Patch.DocumentID)
    IN
    IF Document = 0
    THEN [c |-> w, sync |-> s]
    ELSE LET a == ApplyPatch_NoIdCheck(View(w, Document), Patch) IN
         IF a.ret
         THEN [c |-> View(Emit(SaveLocally(a.c).c,
                               [e |-> "OnSyncComplete", id |-> Patch.DocumentID]),
                          Document),
               sync |-> s]
         ELSE [c |-> View(RecoverDocument(a.c, stale).c, Document), sync |-> s]

OnPatchReceived(w, s, Patch, stale) ==
    LET Document == GetDocument(s, Patch.DocumentID) IN
    IF Document = 0
    THEN [c |-> w, sync |-> s]
    ELSE LET a == ApplyPatch(View(w, Document), Patch) IN
         IF a.ret
         THEN [c |-> View(Emit(SaveLocally(a.c).c,
                               [e |-> "OnSyncComplete", id |-> Patch.DocumentID]),
                          Document),
               sync |-> s]
         ELSE [c |-> View(RecoverDocument(a.c, stale).c, Document), sync |-> s]

\* variant: the version of the loaded data becomes the document's version
OnDocumentLoaded_AdoptsVersion(w, s, DocumentData, overwritten, Document) ==
    LET c0 == [View(w, Document) EXCEPT !.d = NewDocument]
        c1 == Initialize(c0, DocumentData.DocumentID)
        c2 == [SetContentFromString(c1, DocumentData.Content).c
                 EXCEPT !.d.Version = DocumentData.Version]
        s1 == [s EXCEPT !.Documents = DocumentsAdd(@, DocumentData.DocumentID, Document)]
        c3 == SetConflictStrategy(c2, s.DefaultConflictStrategy, overwritten)
        c4 == SaveLocally(c3).c
    IN  [c |-> View(c4, Document), sync |-> s1]

\* Document is the object that NewObject returns
OnDocumentLoaded(w, s, DocumentData, overwritten, Document) ==
    LET c0 == [View(w, Document) EXCEPT !.d = NewDocument]
        c1 == Initialize(c0, DocumentData.DocumentID)
        c2 == SetContentFromString(c1, DocumentData.Content).c
        s1 == [s EXCEPT !.Documents = DocumentsAdd(@, DocumentData.DocumentID, Document)]
        c3 == SetConflictStrategy(c2, s.DefaultConflictStrategy, overwritten)
        c4 == SaveLocally(c3).c
    IN  [c |-> View(c4, Document), sync |-> s1]

OnDocumentSaved(w, s, DocumentID) ==
    [c |-> Emit(w, [e |-> "OnSyncComplete", id |-> DocumentID]), sync |-> s]

\* variant: the error is announced and nothing is saved
OnTransportError_NoLocalSave(w, s, DocumentID, ErrorMessage) ==
    [c |-> Emit(w, [e |-> "OnDocumentSaveError", id |-> DocumentID,
                    ErrorMessage |-> ErrorMessage]),
     sync |-> s]

OnTransportError(w, s, DocumentID, ErrorMessage) ==
    LET w1 == Emit(w, [e |-> "OnDocumentSaveError", id |-> DocumentID,
                       ErrorMessage |-> ErrorMessage])
        Document == GetDocument(s, DocumentID)
    IN  IF Document # 0
        THEN [c |-> View(SaveLocally(View(w1, Document)).c, Document), sync |-> s]
        ELSE [c |-> w1, sync |-> s]

RECURSIVE SetStrategiesFrom(_, _, _, _, _)
\* the loop of SetDefaultConflictStrategy from the i-th registry entry on
SetStrategiesFrom(w, s, i, Strategy, overwritten) ==
    IF i > Len(s.Documents) THEN w
    ELSE LET k == s.Documents[i].doc
         IN  SetStrategiesFrom(View(SetConflictStrategy(View(w, k), Strategy, overwritten), k),
                               s, i + 1, Strategy, overwritten)

SetDefaultConflictStrategy(w, s, Strategy, overwritten) ==
    LET s1 == [s EXCEPT !.DefaultConflictStrategy = Strategy]
    IN  [c |-> SetStrategiesFrom(w, s1, 1, Strategy, overwritten), sync |-> s1]

(***************************************************************************)
(* Inputs of the calls.                                                    *)
(***************************************************************************)
PathC == <<"/", "c">>
PathA == <<"/", "a">>

\* {"c":"X"} and {"c":"Y"}
ContentX == JObj(<< [k |-> K("c"), v |-> JStr(K("X"))] >>)
ContentY == JObj(<< [k |-> K("c"), v |-> JStr(K("Y"))] >>)

\* {"c":"X","n":1,"a":["Y",{"b":2}]}
ContentDeep ==
    JObj(<< [k |-> K("c"), v |-> JStr(K("X"))],
            [k |-> K("n"), v |-> JNum(1)],
            [k |-> K("a"), v |-> JArr(<< JStr(K("Y")),
                                        JObj(<< [k |-> K("b"), v |-> JNum(2)] >>) >>)] >>)

\* the JSON texts "Y" and "Z"
ValueY == Serialize(JStr(K("Y")))
ValueZ == Serialize(JStr(K("Z")))

\* a text that is not JSON: an object that is never closed
MalformedText == <<Tok("{"), TokStr(K("c"))>>

\* records found in the file of Doc1 that SaveLocally did not write for it:
\* one without a content, one of another document, one that is not JSON,
\* one whose latest snapshot has a damaged content
RecordNoContent ==
    Serialize(JObj(<< [k |-> Chars(<<"documentId">>), v |-> JStr(Chars(Doc1))],
                      [k |-> Chars(<<"version">>),    v |-> JNum(1)] >>))
RecordOtherDocument ==
    Serialize(JObj(<< [k |-> Chars(<<"documentId">>), v |-> JStr(Chars(Doc2))],
                      [k |-> Chars(<<"version">>),    v |-> JNum(1)],
                      [k |-> Chars(<<"content">>),    v |-> ContentY] >>))
RecordDamaged == MalformedText
RecordDamagedSnapshot ==
    Serialize(JObj(<< [k |-> Chars(<<"documentId">>), v |-> JStr(Chars(Doc1))],
                      [k |-> Chars(<<"version">>),    v |-> JNum(1)],
                      [k |-> Chars(<<"content">>),    v |-> ContentY],
                      [k |-> Chars(<<"latestSnapshot">>),
                       v |-> SnapshotToJson([DocumentID |-> Doc1, Version |-> 1,
                                             Timestamp |-> 0,
                                             Content |-> MalformedText])] >>))
Records == {RecordNoContent, RecordOtherDocument, RecordDamaged, RecordDamagedSnapshot}

Op(Type, Path, Value, Timestamp) ==
    [ Type |-> Type, Path |-> Path, FromPath |-> <<>>, Value |-> Value,
      Timestamp |-> Timestamp, ClientID |-> <<"r">> ]

RECURSIVE SeqsUpTo(_, _)
\* the sequences over S of length at most n
SeqsUpTo(S, n) ==
    IF n = 0 THEN {<<>>}
    ELSE LET shorter == SeqsUpTo(S, n - 1)
         IN  shorter \cup {Append(q, x) : q \in shorter, x \in S}

RECURSIVE JoinPath(_)
\* the path /seg1/seg2/... written from its segments
JoinPath(Parts) ==
    IF Parts = <<>> THEN <<>> ELSE <<"/">> \o Head(Parts) \o JoinPath(Tail(Parts))

\* the ways a caller writes the path of Parts: with the leading slash and,
\* for no segments at all, the empty string or a lone slash
PathsOf(Parts) ==
    IF Parts = <<>> THEN {<<>>, <<"/">>} ELSE {JoinPath(Parts)}

Patch(DocumentID, Operations) ==
    [ DocumentID |-> DocumentID, BaseVersion |-> 0, Operations |-> Operations,
      Timestamp |-> 0, ClientID |-> <<"r">> ]

\* the patches offered to a document: for Doc1 the empty patch, every
\* single operation and the batches of up to MaxPatchLen operations drawn
\* from Batch; for Doc2 the empty patch and every single operation of Batch
PatchesOver(Ops, Batch) ==
    { Patch(Doc1, ops) : ops \in SeqsUpTo(Ops, 1) \cup SeqsUpTo(Batch, MaxPatchLen) }
      \cup { Patch(Doc2, ops) : ops \in SeqsUpTo(Batch, 1) }

(***************************************************************************)
(* State.                                                                  *)
(***************************************************************************)
VARIABLES
    d,        \* the document
    d2,       \* a second document object, for the calls made on it
    sync,     \* the sync manager: its transport and the requests handed to it
    files,    \* local storage: document id -> file
    now,      \* the clock
    logging,  \* the logger's bLoggingEnabled
    ev,       \* broadcasts and log entries of the last call, in order
    ret       \* the last call: its name, its argument and what it returned

vars == <<d, d2, sync, files, now, logging, ev, ret>>

Ctx(disk) ==
    [d |-> d, files |-> files, now |-> now, disk |-> disk, logging |-> logging,
     ev |-> <<>>]

\* the state a call leaves behind
Returns(call, arg, c, ok) ==
    /\ d' = c.d
    /\ files' = c.files
    /\ ev' = c.ev
    /\ ret' = [call |-> call, arg |-> arg, ok |-> ok, disk |-> c.disk, obj |-> 1]
    /\ UNCHANGED <<d2, sync, now, logging>>

\* the same for a call made on the second document object
CtxOther(disk) == [Ctx(disk) EXCEPT !.d = d2]

ReturnsOther(call, arg, c, ok) ==
    /\ d2' = c.d
    /\ files' = c.files
    /\ ev' = c.ev
    /\ ret' = [call |-> call, arg |-> arg, ok |-> ok, disk |-> c.disk, obj |-> 2]
    /\ UNCHANGED <<d, sync, now, logging>>

Initialized == d.DocumentID # <<>>

Init ==
    /\ d = NewDocument
    /\ d2 = NewDocument
    /\ sync = NewSyncManager
    /\ files = [id \in FileIds |-> NoFile]
    /\ now = 0
    /\ logging = TRUE
    /\ ev = <<>>
    /\ ret = [call |-> "Constructor", arg |-> <<>>, ok |-> TRUE, disk |-> "ok"]

(***************************************************************************)
(* Actions: one per call on the document, over the inputs a specification  *)
(* gives it.  A document is initialized once; the calls made on it before  *)
(* are RecoverDocument and the sync manager's CreateDocument.  The calls   *)
(* that load the local file                                                *)
(* are enabled while SnapshotHistory is not longer than its capacity; a    *)
(* specification enables the calls that increment Version while Version    *)
(* is below its bound.                                                     *)
(***************************************************************************)
InitializeAct ==
    /\ ~Initialized
    /\ Returns("Initialize", Doc1, Initialize(Ctx("ok"), Doc1), TRUE)

SetContentAct(Contents, Disks) ==
    /\ Initialized
    /\ \E JsonObject \in Contents, disk \in Disks :
          LET r == SetContent(Ctx(disk), JsonObject)
          IN  Returns("SetContent", JsonObject, r.c, r.ret)

SetContentFromStringAct(JsonStrings, Disks) ==
    /\ Initialized
    /\ \E JsonString \in JsonStrings, disk \in Disks :
          LET r == SetContentFromString(Ctx(disk), JsonString)
          IN  Returns("SetContentFromString", JsonString, r.c, r.ret)

ApplyPatchAct(Patches, Disks) ==
    /\ Initialized
    /\ \E P \in Patches, disk \in Disks :
          LET r == ApplyPatch(Ctx(disk), P)
          IN  Returns("ApplyPatch", P, r.c, r.ret)

\* the snapshots a caller may hold: one taken now, one kept from the
\* history, one of another document, one with a damaged content
SnapshotInputs ==
    {CreateSnapshot(Ctx("ok"))}
      \cup {d.SnapshotHistory[i] : i \in 1..Len(d.SnapshotHistory)}
      \cup {[CreateSnapshot(Ctx("ok")) EXCEPT !.DocumentID = Doc2]}
      \cup {[CreateSnapshot(Ctx("ok")) EXCEPT !.Content = MalformedText]}

RestoreFromSnapshotAct(Disks) ==
    /\ Initialized
    /\ \E Snapshot \in SnapshotInputs, disk \in Disks :
          LET r == RestoreFromSnapshot(Ctx(disk), Snapshot, 0, FALSE)
          IN  Returns("RestoreFromSnapshot", Snapshot, r.c, r.ret)

SaveLocallyAct(Disks) ==
    /\ Initialized
    /\ \E disk \in Disks :
          LET r == SaveLocally(Ctx(disk))
          IN  Returns("SaveLocally", <<>>, r.c, r.ret)

LoadFromLocalAct(Disks) ==
    /\ Initialized
    /\ Len(d.SnapshotHistory) <= MaxSnapshotHistory
    /\ \E disk \in Disks :
          LET r == LoadFromLocal(Ctx(disk))
          IN  Returns("LoadFromLocal", <<>>, r.c, r.ret)

RecoverDocumentAct(Disks) ==
    /\ Initialized
    /\ Len(d.SnapshotHistory) <= MaxSnapshotHistory
    /\ d.Version < MaxVersion
    /\ \E disk \in Disks, stale \in BOOLEAN :
          LET r == RecoverDocument(Ctx(disk), stale)
          IN  Returns("RecoverDocument", <<>>, r.c, r.ret)

\* RecoverDocument called on a document that was never initialized
RecoverNewDocumentAct(Disks) ==
    /\ ~Initialized
    /\ \E disk \in Disks, stale \in BOOLEAN :
          LET r == RecoverDocument(Ctx(disk), stale)
          IN  Returns("RecoverDocument", <<>>, r.c, r.ret)

\* something else than SaveLocally writes the file of Doc1
ExternalWriteAct(Texts) ==
    /\ \E text \in Texts :
          /\ files' = [files EXCEPT ![Doc1] = [exists |-> TRUE, text |-> text]]
          /\ ret' = [call |-> "ExternalWrite", arg |-> text, ok |-> TRUE, disk |-> "ok"]
    /\ ev' = <<>>
    /\ UNCHANGED <<d, d2, sync, now, logging>>

SetAutoLocalSaveAct(Disks) ==
    /\ Initialized
    /\ \E bEnable \in BOOLEAN, disk \in Disks :
          Returns("SetAutoLocalSave", bEnable, SetAutoLocalSave(Ctx(disk), bEnable), TRUE)

\* SetAutoLocalSave called on a document that was never initialized
SetAutoLocalSaveNewDocumentAct(Disks) ==
    /\ ~Initialized
    /\ \E bEnable \in BOOLEAN, disk \in Disks :
          Returns("SetAutoLocalSave", bEnable, SetAutoLocalSave(Ctx(disk), bEnable), TRUE)

SetConflictStrategyAct(StrategyInputs) ==
    /\ Initialized
    /\ \E Strategy \in StrategyInputs, overwritten \in BOOLEAN :
          Returns("SetConflictStrategy", Strategy,
                  SetConflictStrategy(Ctx("ok"), Strategy, overwritten), TRUE)

SetConflictResolverAct(Resolvers) ==
    /\ Initialized
    /\ \E InConflictResolver \in Resolvers :
          Returns("SetConflictResolver", InConflictResolver,
                  SetConflictResolver(Ctx("ok"), InConflictResolver), TRUE)

\* the calls made on the second document object, which is initialized
\* with the id of the first
InitializeOtherAct ==
    /\ d2.DocumentID = <<>>
    /\ ReturnsOther("Initialize", Doc1, Initialize(CtxOther("ok"), Doc1), TRUE)

SetContentOtherAct(Contents, Disks) ==
    /\ d2.DocumentID # <<>>
    /\ \E JsonObject \in Contents, disk \in Disks :
          LET r == SetContent(CtxOther(disk), JsonObject)
          IN  ReturnsOther("SetContent", JsonObject, r.c, r.ret)

SaveLocallyOtherAct(Disks) ==
    /\ d2.DocumentID # <<>>
    /\ \E disk \in Disks :
          LET r == SaveLocally(CtxOther(disk))
          IN  ReturnsOther("SaveLocally", <<>>, r.c, r.ret)

LoadFromLocalOtherAct(Disks) ==
    /\ d2.DocumentID # <<>>
    /\ Len(d2.SnapshotHistory) <= MaxSnapshotHistory
    /\ \E disk \in Disks :
          LET r == LoadFromLocal(CtxOther(disk))
          IN  ReturnsOther("LoadFromLocal", <<>>, r.c, r.ret)

SetConflictStrategyOtherAct(StrategyInputs) ==
    /\ d2.DocumentID # <<>>
    /\ \E Strategy \in StrategyInputs, overwritten \in BOOLEAN :
          ReturnsOther("SetConflictStrategy", Strategy,
                       SetConflictStrategy(CtxOther("ok"), Strategy, overwritten), TRUE)

\* the calls made on the sync manager; SaveDocument is given a null pointer
\* or the first document
SetTransportAct ==
    /\ \E InTransport \in BOOLEAN :
          /\ sync' = SetTransport(sync, InTransport)
          /\ ret' = [call |-> "SetTransport", arg |-> InTransport, ok |-> TRUE,
                     disk |-> "ok", obj |-> 0]
    /\ ev' = <<>>
    /\ UNCHANGED <<d, d2, files, now, logging>>

SaveDocumentAct(Documents, Disks) ==
    /\ Initialized
    /\ \E Document \in Documents, disk \in Disks :
          LET r == SaveDocument(Ctx(disk), sync, Document)
          IN  /\ d' = r.c.d
              /\ files' = r.c.files
              /\ ev' = r.c.ev
              /\ sync' = r.sync
              /\ ret' = [call |-> "SaveDocument", arg |-> Document, ok |-> TRUE,
                         disk |-> disk, obj |-> 0]
    /\ UNCHANGED <<d2, now, logging>>

\* the context of a call on the sync manager, and the state it leaves behind
World(disk) ==
    [d |-> d, d2 |-> d2, files |-> files, now |-> now, disk |-> disk,
     logging |-> logging, ev |-> <<>>]

ReturnsSync(call, arg, r) ==
    /\ d' = r.c.d
    /\ d2' = r.c.d2
    /\ files' = r.c.files
    /\ ev' = r.c.ev
    /\ sync' = r.sync
    /\ ret' = [call |-> call, arg |-> arg, ok |-> TRUE, disk |-> r.c.disk, obj |-> 0]
    /\ UNCHANGED <<now, logging>>

\* the transport answers a request once: the manager as r leaves it, with
\* the answered request taken from the outstanding ones
Answered(r, DocumentID) ==
    [r EXCEPT !.sync.Requests = {q \in @ : q.DocumentID # DocumentID},
              !.sync.Patches  = {q \in @ : q.DocumentID # DocumentID},
              !.sync.Loads    =
                  IF \E i \in 1..Len(@) : @[i] = DocumentID
                  THEN LET first == CHOOSE i \in 1..Len(@) :
                                       /\ @[i] = DocumentID
                                       /\ \A j \in 1..(i - 1) : @[j] # DocumentID
                       IN  SubSeq(@, 1, first - 1) \o SubSeq(@, first + 1, Len(@))
                  ELSE @]

\* the ids of the requests the transport has been handed
RequestedIds(s) ==
    {r.DocumentID : r \in s.Requests} \cup {p.DocumentID : p \in s.Patches}
      \cup {s.Loads[i] : i \in 1..Len(s.Loads)}

CreateDocumentAct(Documents, Disks) ==
    \E Document \in Documents, disk \in Disks, overwritten \in BOOLEAN :
        \E r \in {CreateDocument(World(disk), sync, Document, overwritten)} :
            ReturnsSync("CreateDocument", Document, r)

LoadDocumentAct(DocumentIDs) ==
    \E DocumentID \in DocumentIDs :
        \E r \in {LoadDocument(World("ok"), sync, DocumentID)} :
            ReturnsSync("LoadDocument", DocumentID, r)

SyncDocumentAct(Documents) ==
    /\ Initialized
    /\ \E Document \in Documents :
          \E r \in {SyncDocument(World("ok"), sync, Document)} :
              ReturnsSync("SyncDocument", Document, r)

RecoverAllDocumentsAct(Disks) ==
    /\ Len(d.SnapshotHistory) <= MaxSnapshotHistory
    /\ Len(d2.SnapshotHistory) <= MaxSnapshotHistory
    /\ d.Version < MaxVersion /\ d2.Version < MaxVersion
    /\ \E disk \in Disks, stale \in BOOLEAN :
          \E r \in {RecoverAllDocuments(World(disk), sync, stale)} :
              ReturnsSync("RecoverAllDocuments", r.ret, r)

SetDefaultConflictStrategyAct(StrategyInputs) ==
    \E Strategy \in StrategyInputs, overwritten \in BOOLEAN :
        \E r \in {SetDefaultConflictStrategy(World("ok"), sync, Strategy, overwritten)} :
            ReturnsSync("SetDefaultConflictStrategy", Strategy, r)

\* the callbacks the transport makes: a patch arrives once the manager has
\* registered with a transport, the others answer a request
OnPatchReceivedAct(Patches, Disks) ==
    /\ sync.Transport
    /\ Len(d.SnapshotHistory) <= MaxSnapshotHistory
    /\ Len(d2.SnapshotHistory) <= MaxSnapshotHistory
    /\ \E InPatch \in Patches, disk \in Disks, stale \in BOOLEAN :
          \E r \in {OnPatchReceived(World(disk), sync, InPatch, stale)} :
              ReturnsSync("OnPatchReceived", InPatch, r)

\* a document object that no call has used yet, for NewObject to return:
\* the second one, or else the first (0 when both are in use)
UnusedDocument ==
    LET Unused(k) == /\ (IF k = 1 THEN d ELSE d2) = NewDocument
                     /\ \A i \in 1..Len(sync.Documents) : sync.Documents[i].doc # k
    IN  IF Unused(2) THEN 2 ELSE IF Unused(1) THEN 1 ELSE 0

\* the loaded document becomes a document object of its own
OnDocumentLoadedAct(Versions, Contents, Disks) ==
    /\ UnusedDocument # 0
    /\ \E DocumentID \in {sync.Loads[i] : i \in 1..Len(sync.Loads)},
          Version \in Versions, Content \in Contents, disk \in Disks,
          overwritten \in BOOLEAN :
          LET DocumentData == [ DocumentID |-> DocumentID, Version |-> Version,
                                Content |-> Content, UpdatedAt |-> now ]
          IN  \E r \in {OnDocumentLoaded(World(disk), sync, DocumentData, overwritten,
                                          UnusedDocument)} :
                  ReturnsSync("OnDocumentLoaded", DocumentData, Answered(r, DocumentID))

OnDocumentSavedAct ==
    \E DocumentID \in {r.DocumentID : r \in sync.Requests} :
        \E r \in {OnDocumentSaved(World("ok"), sync, DocumentID)} :
            ReturnsSync("OnDocumentSaved", DocumentID, Answered(r, DocumentID))

OnTransportErrorAct(Disks) ==
    \E DocumentID \in RequestedIds(sync), disk \in Disks :
        \E r \in {OnTransportError(World(disk), sync, DocumentID, "error")} :
            ReturnsSync("OnTransportError", DocumentID, Answered(r, DocumentID))

SetLoggingEnabledAct ==
    /\ \E bEnable \in BOOLEAN :
          /\ logging' = bEnable
          /\ ev' = <<>>
          /\ ret' = [call |-> "SetLoggingEnabled", arg |-> bEnable, ok |-> TRUE]
    /\ UNCHANGED <<d, d2, sync, files, now>>

\* a call of the default resolver on a conflict made of two operations
ResolveConflictAct(StrategyInputs, Ops) ==
    \E Strategy \in StrategyInputs, LocalOperation \in Ops, RemoteOperation \in Ops :
       /\ LocalOperation.Path = RemoteOperation.Path
       /\ LocalOperation.Value # RemoteOperation.Value
       /\ LET Conflict == [ Path            |-> RemoteOperation.Path,
                            LocalValue      |-> LocalOperation.Value,
                            RemoteValue     |-> RemoteOperation.Value,
                            LocalOperation  |-> LocalOperation,
                            RemoteOperation |-> RemoteOperation,
                            ResolvedValue   |-> <<>>,
                            bResolved       |-> FALSE ]
              r == DefaultResolveConflict(Strategy, Conflict)
          IN  /\ ret' = [call |-> "ResolveConflict",
                         arg |-> [Strategy |-> Strategy, Conflict |-> Conflict],
                         ok |-> r.ret]
              /\ ev' = <<[e |-> "Resolved", Conflict |-> r.Conflict]>>
       /\ UNCHANGED <<d, d2, sync, files, now, logging>>

\* GetValueAtPath applied to a JSON object and a path; Parts are the
\* segments the path was written from
GetValueAtPathAct(Objects, SegmentSeqs) ==
    \E JsonObject \in Objects, Parts \in SegmentSeqs :
       \E Path \in PathsOf(Parts) : \E Value \in {GetValueAtPath(JsonObject, Path)} :
          /\ ret' = [call |-> "GetValueAtPath",
                     arg |-> [JsonObject |-> JsonObject, Path |-> Path, Parts |-> Parts],
                     ok |-> Value # NullPtr,
                     Value |-> Value]
          /\ ev' = <<>>
          /\ UNCHANGED <<d, d2, sync, files, now, logging>>

\* time passes
Tick ==
    /\ now < MaxClock
    /\ now' = now + 1
    /\ ev' = <<>>
    /\ ret' = [call |-> "Tick", arg |-> <<>>, ok |-> TRUE]
    /\ UNCHANGED <<d, d2, sync, files, logging>>

(***************************************************************************)
(* Specifications.                                                         *)
(***************************************************************************)
\* Spec: the life of one document in memory (content, patches, snapshots,
\* restoring) and its saves to local storage
LifePatches ==
    { Patch(id, ops) : id \in DocIds, ops \in {<<>>, <<Op("Replace", PathC, ValueY, 1)>>} }

Next ==
    \/ InitializeAct
    \/ d.Version < MaxVersion /\ SetContentAct({ContentX, NullPtr}, {"ok"})
    \/ d.Version < MaxVersion
         /\ SetContentFromStringAct({Serialize(ContentY), MalformedText}, {"ok"})
    \/ d.Version < MaxVersion /\ ApplyPatchAct(LifePatches, {"ok"})
    \/ d.Version < MaxVersion /\ RestoreFromSnapshotAct({"ok"})
    \/ SaveLocallyAct({"ok"})
    \/ SetAutoLocalSaveAct({"ok"})

Spec == Init /\ [][Next]_vars

\* SpecStorage: one document and its file in local storage (saving,
\* loading, recovering), with the calls that add snapshots
NextStorage ==
    \/ InitializeAct
    \/ d.Version < MaxVersion /\ SetContentAct({ContentX}, {"ok"})
    \/ d.Version < MaxVersion /\ ApplyPatchAct({Patch(Doc1, <<>>)}, {"ok"})
    \/ d.Version < MaxVersion /\ RestoreFromSnapshotAct({"ok"})
    \/ SaveLocallyAct({"ok"})
    \/ LoadFromLocalAct({"ok"})
    \/ d.Version < MaxVersion /\ RecoverDocumentAct({"ok", "noread"})
    \/ SetAutoLocalSaveAct({"ok"})

SpecStorage == Init /\ [][NextStorage]_vars

\* SpecRecord: loading and recovering from whatever the file holds, also on
\* a document that was never initialized
NextRecord ==
    \/ InitializeAct
    \/ RecoverNewDocumentAct({"ok"})
    \/ d.Version < MaxVersion /\ SetContentAct({ContentX}, {"ok"})
    \/ SaveLocallyAct({"ok"})
    \/ ExternalWriteAct(Records)
    \/ LoadFromLocalAct({"ok", "noread"})
    \/ RecoverDocumentAct({"ok", "noread"})

SpecRecord == Init /\ [][NextRecord]_vars

\* SpecRoundTrip: snapshots of flat and nested contents, taken and restored
NextRoundTrip ==
    \/ InitializeAct
    \/ d.Version < MaxVersion /\ SetContentAct({ContentX, ContentDeep}, {"ok"})
    \/ d.Version < MaxVersion /\ RestoreFromSnapshotAct({"ok"})
    \/ SetAutoLocalSaveAct({"ok"})

SpecRoundTrip == Init /\ [][NextRoundTrip]_vars

\* SpecPatch: patches against the operation history, under each strategy
PatchOps ==
    { Op("Replace", PathC, v, ts) : v \in {ValueY, ValueZ}, ts \in 1..MaxTime }
      \cup { Op("Replace", PathA, ValueZ, 1), Op("Test", PathC, ValueY, 1) }

\* the operations that also come in batches
BatchOps == { Op("Replace", PathC, ValueZ, MaxTime), Op("Test", PathC, ValueY, 1) }

NextPatch ==
    \/ InitializeAct
    \/ d.Version < MaxPatchedVersion /\ SetContentAct({ContentX}, {"ok"})
    \/ d.Version < MaxPatchedVersion /\ ApplyPatchAct(PatchesOver(PatchOps, BatchOps), {"ok"})
    \/ SetConflictStrategyAct({"LastWriterWins", "LocalWins", "Custom"})
    \/ SetLoggingEnabledAct

SpecPatch == Init /\ [][NextPatch]_vars

\* SpecResolver: the default resolver on its own, over every pair of
\* conflicting Replace operations
ResolverOps ==
    { Op("Replace", p, v, ts) : p \in {PathC, PathA}, v \in {ValueY, ValueZ},
                                ts \in 0..MaxTime }

NextResolver == ResolveConflictAct(Strategies, ResolverOps)

SpecResolver == Init /\ [][NextResolver]_vars

\* SpecPath: GetValueAtPath on its own, over objects with scalars, arrays
\* and nested objects and every path of up to MaxPathParts segments; the
\* function is const and keeps no state, so a behaviour makes one lookup
PathSegments == { <<"c">>, <<"a">>, <<"b">>, <<"x">>, <<"0">>, <<"1">>, <<"5">> }

NextPath ==
    ret.call = "Constructor" /\
    GetValueAtPathAct({ContentX, ContentDeep, JObj(<<>>)},
                      SeqsUpTo(PathSegments, MaxPathParts))

SpecPath == Init /\ [][NextPath]_vars

\* SpecStale: patches that name any base version, delivered any number of
\* times in any order
BaseVersions == 0..MaxPatchedVersion

StaleOps ==
    { Op("Replace", PathC, ValueY, 1), Op("Replace", PathC, ValueZ, MaxTime),
      Op("Test", PathC, ValueY, 1) }

StalePatches ==
    { [P EXCEPT !.BaseVersion = b] :
         P \in PatchesOver(StaleOps, {Op("Replace", PathC, ValueZ, MaxTime)}),
         b \in BaseVersions }

NextStale ==
    \/ InitializeAct
    \/ d.Version < MaxPatchedVersion /\ SetContentAct({ContentX}, {"ok"})
    \/ d.Version < MaxPatchedVersion /\ ApplyPatchAct(StalePatches, {"ok"})
    \/ SetConflictStrategyAct({"LastWriterWins", "Custom"})

SpecStale == Init /\ [][NextStale]_vars

\* SpecAutoSave: a document that saves itself on every change, on a disk
\* that takes every write; auto local save may be enabled before Initialize
NextAutoSave ==
    \/ InitializeAct
    \/ SetAutoLocalSaveNewDocumentAct({"ok"})
    \/ SetAutoLocalSaveAct({"ok"})
    \/ d.Version < MaxVersion /\ SetContentAct({ContentX}, {"ok"})
    \/ d.Version < MaxVersion
         /\ SetContentFromStringAct({Serialize(ContentY), MalformedText}, {"ok"})
    \/ d.Version < MaxVersion /\ ApplyPatchAct({Patch(Doc1, <<>>)}, {"ok"})
    \/ SaveLocallyAct({"ok"})
    \/ RecoverDocumentAct({"ok", "noread"})

SpecAutoSave == Init /\ [][NextAutoSave]_vars

\* SpecLastError: calls that fail and calls that succeed, in any order, on a
\* disk that may refuse the read or the write
NextLastError ==
    \/ InitializeAct
    \/ SetAutoLocalSaveAct({"ok", "nowrite"})
    \/ d.Version < MaxVersion /\ SetContentAct({ContentX}, {"ok", "nowrite"})
    \/ d.Version < MaxVersion /\ ApplyPatchAct({Patch(Doc1, <<>>)}, {"ok", "nowrite"})
    \/ SaveLocallyAct({"ok", "nodir", "nowrite"})
    \/ LoadFromLocalAct({"ok", "noread", "nowrite"})
    \/ RecoverDocumentAct({"ok", "noread", "nowrite"})

SpecLastError == Init /\ [][NextLastError]_vars

\* SpecStrategy: strategies and resolvers set in any order, and the
\* conflicts they resolve
StrategyOps ==
    { Op("Replace", PathC, v, 1) : v \in {ValueY, ValueZ} }
      \cup { Op(Type, PathC, ValueZ, 1) : Type \in {"Add", "Remove", "Move", "Copy", "Test"} }
      \cup { Op("Replace", PathA, ValueZ, 1) }

NextStrategy ==
    \/ InitializeAct
    \/ SetConflictStrategyAct(Strategies)
    \/ SetConflictResolverAct({NullPtr, CustomResolver, DefaultResolver("RemoteWins")})
    \/ d.Version < MaxVersion
         /\ ApplyPatchAct({Patch(Doc1, <<o>>) : o \in StrategyOps}, {"ok"})

SpecStrategy == Init /\ [][NextStrategy]_vars

\* SpecSave: the calls that save automatically, on a disk that may refuse
\* the directory or the write
SaveDisks == {"ok", "nodir", "nowrite"}

NextSave ==
    \/ InitializeAct
    \/ d.Version < MaxVersion /\ SetContentAct({ContentX}, SaveDisks)
    \/ d.Version < MaxVersion
         /\ ApplyPatchAct({Patch(Doc1, <<Op("Replace", PathC, ValueY, 1)>>)},
                          {"ok", "nowrite"})
    \/ d.Version < MaxVersion /\ RestoreFromSnapshotAct({"ok"})
    \/ SetAutoLocalSaveAct({"ok"})

SpecSave == Init /\ [][NextSave]_vars

\* SpecSync: a document saved through the sync manager, with and without a
\* transport
NextSync ==
    \/ InitializeAct
    \/ d.Version < MaxVersion /\ SetContentAct({ContentX, ContentY}, {"ok"})
    \/ SetTransportAct
    \/ SaveDocumentAct({NullPtr, DocumentPtr}, {"ok", "nowrite"})

SpecSync == Init /\ [][NextSync]_vars

\* SpecSyncDocument: a document, saved locally or not, is synchronized
\* through the sync manager, with and without a transport
NextSyncDocument ==
    \/ InitializeAct
    \/ d.Version < MaxVersion /\ SetContentAct({ContentX, ContentY}, {"ok"})
    \/ SaveLocallyAct({"ok"})
    \/ SetTransportAct
    \/ SyncDocumentAct({0, 1})

SpecSyncDocument == Init /\ [][NextSyncDocument]_vars

\* SpecManager: the sync manager with its transport's callbacks.  The first
\* document is registered by CreateDocument, before or after its
\* initialization, or saved without being registered; the second is the
\* one a completed load creates
ManagerPatches ==
    { Patch(id, <<Op("Replace", PathC, ValueY, 1)>>) : id \in {Doc1, Doc2, NoId} }

NextManager ==
    \/ InitializeAct
    \/ SetTransportAct
    \/ sync.Requests = {} /\ CreateDocumentAct({1}, {"ok"})
    \/ sync.Requests = {} /\ SaveDocumentAct({DocumentPtr}, {"ok"})
    \/ sync.Loads = <<>> /\ LoadDocumentAct({Doc2})
    \* the caller recovers documents that have applied no patch yet
    \/ d.OperationHistory = <<>> /\ d2.OperationHistory = <<>>
         /\ RecoverAllDocumentsAct({"ok"})
    \/ d.Version < MaxVersion /\ d2.Version < MaxVersion
         /\ OnPatchReceivedAct(ManagerPatches, {"ok", "nowrite"})
    \/ OnDocumentLoadedAct({1}, {Serialize(ContentY)}, {"ok"})
    \/ OnDocumentSavedAct
    \/ OnTransportErrorAct({"ok"})

SpecManager == Init /\ [][NextManager]_vars

\* SpecRegistry: the default conflict strategy of the sync manager and the
\* documents of its registry: the first, with or without a resolver of
\* its own, registered by CreateDocument, the second by a completed load
NextRegistry ==
    \/ InitializeAct
    \/ SetTransportAct
    \/ SetConflictResolverAct({CustomResolver})
    \/ sync.Requests = {} /\ CreateDocumentAct({1}, {"ok"})
    \/ SetDefaultConflictStrategyAct(Strategies)
    \/ sync.Loads = <<>> /\ LoadDocumentAct({Doc2})
    \/ OnDocumentLoadedAct({1}, {Serialize(ContentY)}, {"ok"})

SpecRegistry == Init /\ [][NextRegistry]_vars

\* SpecLoad: documents loaded through the transport.  Up to MaxLoads load
\* requests are outstanding at a time and are answered in any order, with
\* any version and content; the first document may be created and
\* registered by the caller in the meantime
NextLoad ==
    \/ InitializeAct
    \/ SetTransportAct
    \/ sync.Requests = {} /\ CreateDocumentAct({1}, {"ok"})
    \/ Len(sync.Loads) < MaxLoads /\ LoadDocumentAct({Doc1})
    \/ OnDocumentLoadedAct({1, MaxVersion + 1},
                           {Serialize(ContentX), Serialize(ContentY), MalformedText},
                           {"ok"})
    \/ OnTransportErrorAct({"ok"})
    \/ sync.Patches = {} /\ SyncDocumentAct({1, 2})

SpecLoad == Init /\ [][NextLoad]_vars

\* SpecShared: two document objects with the same id share one local file;
\* the first writes {"c":"X"}, the second, which may write once more than
\* the first, {"c":"Y"}
NextShared ==
    \/ InitializeAct
    \/ InitializeOtherAct
    \/ d.Version < MaxVersion - 1 /\ SetContentAct({ContentX}, {"ok"})
    \/ d2.Version < MaxVersion /\ SetContentOtherAct({ContentY}, {"ok"})
    \/ SetConflictStrategyOtherAct({"LocalWins"})
    \/ SaveLocallyAct({"ok"})
    \/ SaveLocallyOtherAct({"ok"})
    \/ LoadFromLocalAct({"ok"})
    \/ LoadFromLocalOtherAct({"ok"})

SpecShared == Init /\ [][NextShared]_vars

\* SpecInverse: saving and loading while time passes
NextInverse ==
    \/ InitializeAct
    \/ d.Version < MaxVersion /\ SetContentAct({ContentX, ContentDeep}, {"ok"})
    \/ SaveLocallyAct({"ok", "nowrite"})
    \/ LoadFromLocalAct({"ok"})
    \/ Tick

SpecInverse == Init /\ [][NextInverse]_vars

(***************************************************************************)
(* Helpers of the properties.                                              *)
(***************************************************************************)
\* the last n elements of s
LastN(s, n) == IF Len(s) > n THEN SubSeq(s, Len(s) - n + 1, Len(s)) ELSE s

\* the events of kind e among the events of the last call
EventsOf(e) == {i \in 1..Len(ev) : ev[i].e = e}

\* the value at Path in the content c, as JSON text (empty when absent)
TextAtPath(Content, Path) ==
    IF GetValueAtPath(Content, Path) = NullPtr THEN <<>>
    ELSE Serialize(GetValueAtPath(Content, Path))

\* op meets a recorded Replace at its path with another value
Conflicts(History, op) ==
    \E i \in 1..Len(History) :
       /\ History[i].Path = op.Path
       /\ History[i].Type = "Replace"
       /\ History[i].Value # op.Value

(***************************************************************************)
(* Properties.                                                             *)
(***************************************************************************)

\* C1 (SpecPatch): a SetContent or ApplyPatch call that returns success
\* leaves Version exactly one above its value before the call, whatever the
\* number of operations in the patch and of conflicts met.
C1_VersionPlusOne ==
    [][ (ret'.call \in {"SetContent", "ApplyPatch"} /\ ret'.ok)
            => d'.Version = d.Version + 1 ]_vars

\* C1 witness: a successful patch of two operations that met a conflict
C1_Witness ==
    /\ ret.call = "ApplyPatch" /\ ret.ok
    /\ Len(ret.arg.Operations) = 2
    /\ EventsOf("OnConflictDetected") # {}
    /\ d.Version > 1

\* C2 (Spec): ApplyPatch with a patch for another document returns failure
\* and changes nothing: document, local file, no broadcast, no log entry.
C2_ForeignPatchNoEffect ==
    [][ (ret'.call = "ApplyPatch" /\ ret'.arg.DocumentID # d.DocumentID)
            => (~ret'.ok /\ d' = d /\ files' = files /\ ev' = <<>>) ]_vars

\* C2 witness: a foreign patch with an operation was rejected while auto
\* local save was on
C2_Witness ==
    /\ ret.call = "ApplyPatch" /\ ~ret.ok
    /\ ret.arg.DocumentID # d.DocumentID
    /\ Len(ret.arg.Operations) > 0
    /\ d.bAutoLocalSave

\* C3 (SpecPatch), as claimed: after a successful patch of one Replace on an
\* existing path that conflicts with no recorded operation, the content
\* holds the operation's value at that path.
C3_ReplaceTakesEffect ==
    [][ ( /\ ret'.call = "ApplyPatch" /\ ret'.ok
          /\ Len(ret'.arg.Operations) = 1
          /\ ret'.arg.Operations[1].Type = "Replace"
          /\ GetValueAtPath(d.Content, ret'.arg.Operations[1].Path) # NullPtr
          /\ ~Conflicts(d.OperationHistory, ret'.arg.Operations[1]) )
            => TextAtPath(d'.Content, ret'.arg.Operations[1].Path)
                 = ret'.arg.Operations[1].Value ]_vars

\* C4 (SpecPatch), as claimed: under LastWriterWins, with a history of one
\* Replace at an existing path p (value Y, time T1), a patch of one Replace
\* at p (value Z # Y, time T2 < T1) fires exactly one conflict notification
\* and leaves Y at p in the content.
C4_LocalValueStays ==
    [][ ( /\ ret'.call = "ApplyPatch" /\ ret'.ok
          /\ d.ConflictResolver.Strategy = "LastWriterWins"
          /\ Len(d.OperationHistory) = 1
          /\ d.OperationHistory[1].Type = "Replace"
          /\ GetValueAtPath(d.Content, d.OperationHistory[1].Path) # NullPtr
          /\ Len(ret'.arg.Operations) = 1
          /\ ret'.arg.Operations[1].Type = "Replace"
          /\ ret'.arg.Operations[1].Path = d.OperationHistory[1].Path
          /\ ret'.arg.Operations[1].Value # d.OperationHistory[1].Value
          /\ ret'.arg.Operations[1].Timestamp < d.OperationHistory[1].Timestamp )
            => ( /\ Cardinality({i \in 1..Len(ev') : ev'[i].e = "OnConflictDetected"}) = 1
                 /\ TextAtPath(d'.Content, d.OperationHistory[1].Path)
                      = d.OperationHistory[1].Value ) ]_vars

\* C5 (SpecResolver): under LastWriterWins the default resolver succeeds,
\* marks the conflict resolved, and the resolved value is the local value
\* if and only if the local timestamp is greater than the remote one, and
\* the remote value otherwise (a tie included).
C5_LastWriterWins ==
    (ret.call = "ResolveConflict" /\ ret.arg.Strategy = "LastWriterWins")
        => LET in  == ret.arg.Conflict
               out == ev[1].Conflict
               T1  == in.LocalOperation.Timestamp
               T2  == in.RemoteOperation.Timestamp
           IN  /\ ret.ok
               /\ out.bResolved
               /\ (out.ResolvedValue = in.LocalValue) <=> (T1 > T2)
               /\ ~(T1 > T2) => out.ResolvedValue = in.RemoteValue

\* C5 witness: a tie was resolved to the remote value
C5_Witness ==
    /\ ret.call = "ResolveConflict" /\ ret.arg.Strategy = "LastWriterWins"
    /\ ret.arg.Conflict.LocalOperation.Timestamp
         = ret.arg.Conflict.RemoteOperation.Timestamp
    /\ ev[1].Conflict.ResolvedValue = ret.arg.Conflict.RemoteValue

\* the patch of the last call holds Test operations only, and at least one
TestOnly(P) ==
    /\ Len(P.Operations) > 0
    /\ \A k \in 1..Len(P.Operations) : P.Operations[k].Type = "Test"

\* C6 (SpecPatch), as claimed: a successful patch of Test operations only
\* changes neither content nor version.
C6_TestLeavesVersion ==
    [][ (ret'.call = "ApplyPatch" /\ ret'.ok /\ TestOnly(ret'.arg))
            => (d'.Content = d.Content /\ d'.Version = d.Version) ]_vars

\* C6 (SpecPatch), amended: a successful patch of Test operations only
\* leaves the content unchanged and raises the version by one, as every
\* patch does; each Test operation is appended to the history (oldest
\* entries evicted beyond the capacity) and, logging being enabled,
\* produces one log entry.
C6_TestRecordedOnly ==
    [][ (ret'.call = "ApplyPatch" /\ ret'.ok /\ TestOnly(ret'.arg))
            => ( /\ d'.Content = d.Content
                 /\ d'.Version = d.Version + 1
                 /\ d'.OperationHistory
                      = LastN(d.OperationHistory \o ret'.arg.Operations,
                              MaxOperationHistory)
                 /\ logging =>
                      /\ Cardinality({i \in 1..Len(ev') : ev'[i].e = "LogOperation"})
                            = Len(ret'.arg.Operations)
                      /\ \A i \in 1..Len(ev') :
                            ev'[i].e = "LogOperation"
                                => (ev'[i].OperationType = "Test" /\ ~ev'[i].bHadConflict) ) ]_vars

\* C6 witness: a patch of two Test operations was applied to a document
\* with content, and logged
C6_Witness ==
    /\ ret.call = "ApplyPatch" /\ ret.ok /\ TestOnly(ret.arg)
    /\ Len(ret.arg.Operations) = 2
    /\ d.Content = ContentX
    /\ Cardinality(EventsOf("LogOperation")) = 2

\* C7 (SpecPatch): the operation history never holds more than
\* MaxOperationHistory entries.
C7_OperationHistoryBounded == Len(d.OperationHistory) <= MaxOperationHistory

\* C7 witness: a patch that met conflicts left the history full
C7_Witness ==
    /\ ret.call = "ApplyPatch" /\ ret.ok
    /\ Cardinality(EventsOf("OnConflictDetected")) >= 2
    /\ Len(d.OperationHistory) = MaxOperationHistory

\* C8 (SpecStorage), as claimed: the snapshot history never holds more than
\* MaxSnapshotHistory entries.
C8_SnapshotHistoryBounded == Len(d.SnapshotHistory) <= MaxSnapshotHistory

\* C9 (SpecPatch), as claimed, for one more operation: under LastWriterWins,
\* when the history holds distinct Replace operations only, none of them
\* later than a further, distinct Replace applied by a patch of its own,
\* the history afterwards is the old one followed by that operation, cut to
\* its last MaxOperationHistory entries.
C9_HistoryIsRecentOperations ==
    [][ ( /\ ret'.call = "ApplyPatch" /\ ret'.ok
          /\ d.ConflictResolver.Strategy = "LastWriterWins"
          /\ Len(ret'.arg.Operations) = 1
          /\ ret'.arg.Operations[1].Type = "Replace"
          /\ \A i \in 1..Len(d.OperationHistory) :
                /\ d.OperationHistory[i].Type = "Replace"
                /\ d.OperationHistory[i] # ret'.arg.Operations[1]
                /\ d.OperationHistory[i].Timestamp <= ret'.arg.Operations[1].Timestamp
                /\ \A j \in 1..Len(d.OperationHistory) :
                      i # j => d.OperationHistory[i] # d.OperationHistory[j] )
            => d'.OperationHistory
                 = LastN(Append(d.OperationHistory, ret'.arg.Operations[1]),
                         MaxOperationHistory) ]_vars

\* C10 (Spec): right after Initialize on a newly constructed document the
\* snapshot history has exactly one entry: the serialized empty object, at
\* the document's version, which is 1.
C10_InitialSnapshot ==
    ret.call = "Initialize"
        => /\ Len(d.SnapshotHistory) = 1
           /\ d.SnapshotHistory[1].Content = <<Tok("{"), Tok("}")>>
           /\ d.SnapshotHistory[1].Version = d.Version
           /\ d.Version = 1
           /\ d.SnapshotHistory[1].DocumentID = d.DocumentID

\* C10 witness: Initialize has just returned
C10_Witness ==
    /\ ret.call = "Initialize"
    /\ d.DocumentID = Doc1
    /\ d.SnapshotHistory # <<>>

\* C11 (SpecRoundTrip): restoring the snapshot that CreateSnapshot returns
\* for the document as it is succeeds and leaves the content, and its
\* serialization, as they were, and the version equal to the snapshot's.
C11_SnapshotRoundTrip ==
    [][ (ret'.call = "RestoreFromSnapshot" /\ ret'.arg = CreateSnapshot(Ctx("ok")))
            => ( /\ ret'.ok
                 /\ d'.Content = d.Content
                 /\ Serialize(d'.Content) = ret'.arg.Content
                 /\ d'.Version = ret'.arg.Version
                 /\ d'.Version = d.Version ) ]_vars

\* C11 witness: a snapshot of the nested content was restored; the call
\* left a snapshot of the incremented version behind and the version back
\* at the snapshot's
C11_Witness ==
    /\ ret.call = "RestoreFromSnapshot" /\ ret.ok
    /\ ret.arg.Content = Serialize(ContentDeep)
    /\ d.Content = ContentDeep
    /\ ret.arg.Version = d.Version
    /\ \E i \in 1..Len(d.SnapshotHistory) : d.SnapshotHistory[i].Version > d.Version

\* C12 (Spec): RestoreFromSnapshot with a snapshot of another document, or
\* with a content that does not parse as a JSON object, returns failure
\* and changes nothing: document (version, content, both histories), local
\* file, no broadcast.
C12_FailedRestoreNoEffect ==
    [][ ( /\ ret'.call = "RestoreFromSnapshot"
          /\ \/ ret'.arg.DocumentID # d.DocumentID
             \/ Deserialize(ret'.arg.Content) = NullPtr )
            => (~ret'.ok /\ d' = d /\ files' = files /\ ev' = <<>>) ]_vars

\* C12 witness: a snapshot of this document with a damaged content was
\* refused while auto local save was on and the document had a content
C12_Witness ==
    /\ ret.call = "RestoreFromSnapshot" /\ ~ret.ok
    /\ ret.arg.DocumentID = d.DocumentID
    /\ ret.arg.Content = MalformedText
    /\ d.bAutoLocalSave
    /\ d.Content # JObj(<<>>)

\* C13 (Spec): SetContentFromString with a text that is not a JSON object
\* returns failure and changes nothing: document (content, version,
\* snapshot history), local file (no auto-save), no broadcast.
C13_MalformedTextNoEffect ==
    [][ (ret'.call = "SetContentFromString" /\ Deserialize(ret'.arg) = NullPtr)
            => (~ret'.ok /\ d' = d /\ files' = files /\ ev' = <<>>) ]_vars

\* C13 witness: a malformed text was refused while auto local save was on
\* and the document had a content and a saved file
C13_Witness ==
    /\ ret.call = "SetContentFromString" /\ ~ret.ok
    /\ ret.arg = MalformedText
    /\ d.bAutoLocalSave
    /\ d.Content # JObj(<<>>)
    /\ files[d.DocumentID].exists

\* C14 (SpecRecord), as claimed: a LoadFromLocal that returns failure
\* leaves version, content and snapshot history as they were.
C14_FailedLoadNoEffect ==
    [][ (ret'.call = "LoadFromLocal" /\ ~ret'.ok)
            => ( /\ d'.Version = d.Version
                 /\ d'.Content = d.Content
                 /\ d'.SnapshotHistory = d.SnapshotHistory ) ]_vars

\* C17 (SpecRecord): RecoverDocument does what LoadFromLocal does and, if
\* that succeeded, nothing else but announce the recovery from
\* "LocalStorage"; only if the load failed it restores the newest snapshot
\* and announces the recovery from "Snapshot"; it returns failure, with its
\* own message as last error and no announcement, exactly when the load
\* failed and there is no snapshot or the newest one cannot be restored.
C17_RecoveryOrder ==
    [][ ret'.call = "RecoverDocument"
          => LET l          == LoadFromLocal(Ctx(ret'.disk))
                 hist       == d.SnapshotHistory
                 n          == Len(hist)
                 recovered  == {i \in 1..Len(ev') : ev'[i].e = "OnDocumentRecovered"}
                 restorable == /\ n > 0
                               /\ hist[n].DocumentID = d.DocumentID
                               /\ Deserialize(hist[n].Content) # NullPtr
             IN  IF l.ret
                 THEN /\ ret'.ok
                      /\ d' = l.c.d
                      /\ files' = l.c.files
                      /\ ev' = Append(l.c.ev, [e |-> "OnDocumentRecovered",
                                               source |-> "LocalStorage"])
                 ELSE IF restorable
                 THEN /\ ret'.ok
                      /\ d'.Content = Deserialize(hist[n].Content)
                      /\ recovered = {Len(ev')}
                      /\ ev'[Len(ev')].source = "Snapshot"
                      /\ d'.LastErrorMessage = l.c.d.LastErrorMessage
                 ELSE /\ ~ret'.ok
                      /\ recovered = {}
                      /\ d'.Content = d.Content
                      /\ d'.LastErrorMessage
                           = "Failed to recover document from any source" ]_vars

\* C17 witness: the file could not be read and the newest snapshot, loaded
\* earlier from a record with a damaged snapshot, could not be restored
C17_Witness ==
    /\ ret.call = "RecoverDocument" /\ ~ret.ok
    /\ ret.disk = "noread"
    /\ Len(d.SnapshotHistory) > 1
    /\ d.SnapshotHistory[Len(d.SnapshotHistory)].Content = MalformedText
    /\ d.LastErrorMessage = "Failed to recover document from any source"

\* the document object a call was made on
Obj(k) == IF k = 1 THEN d ELSE d2

\* C15 (SpecInverse): when SaveLocally has succeeded on a document and the
\* next call is LoadFromLocal on a document with the same id, the load
\* succeeds, the loading document has the version and the content of the
\* saving one, and its newest snapshot is the saving one's newest snapshot.
C15_LoadInvertsSave ==
    [][ (ret.call = "SaveLocally" /\ ret.ok /\ ret'.call = "LoadFromLocal")
          => LET S      == Obj(ret.obj)
                 Loaded == IF ret'.obj = 1 THEN d' ELSE d2'
             IN  /\ ret'.ok
                 /\ Loaded.Version = S.Version
                 /\ Loaded.Content = S.Content
                 /\ Loaded.SnapshotHistory # <<>>
                 /\ Loaded.SnapshotHistory[Len(Loaded.SnapshotHistory)]
                      = S.SnapshotHistory[Len(S.SnapshotHistory)] ]_vars

\* C15: the same without the newest snapshot
C15_VersionAndContent ==
    [][ (ret.call = "SaveLocally" /\ ret.ok /\ ret'.call = "LoadFromLocal")
          => LET S      == Obj(ret.obj)
                 Loaded == IF ret'.obj = 1 THEN d' ELSE d2'
             IN  /\ ret'.ok
                 /\ Loaded.Version = S.Version
                 /\ Loaded.Content = S.Content ]_vars

\* the version and the content of the record in the file of Doc1
RecordVersion(fs) == TryGetNumberField(Deserialize(fs[Doc1].text), "version").v
RecordContent(fs) == TryGetObjectField(Deserialize(fs[Doc1].text), "content").v

\* C16 (SpecShared): two document objects with the same id use one record.
\* A successful SaveLocally of either leaves in it the version and content
\* of the document that saved, whatever the other wrote before; no other
\* call changes the record; LoadFromLocal on either gives the loading
\* document the version and content of the record, whatever the conflict
\* strategies of the two are.
C16_LastWriteWins ==
    [][ /\ (ret'.call = "SaveLocally" /\ ret'.ok)
            => /\ files'[Doc1].exists
               /\ RecordVersion(files') = Obj(ret'.obj).Version
               /\ RecordContent(files') = Obj(ret'.obj).Content
        /\ ~(ret'.call = "SaveLocally" /\ ret'.ok) => files' = files
        /\ (ret'.call = "LoadFromLocal" /\ files[Doc1].exists)
            => LET Loaded == IF ret'.obj = 1 THEN d' ELSE d2'
               IN  /\ ret'.ok
                   /\ Loaded.Version = RecordVersion(files)
                   /\ Loaded.Content = RecordContent(files) ]_vars

\* C16 witness: the first document saved {"c":"X"}, the second loaded it,
\* wrote {"c":"Y"} and saved under another strategy, and the first document
\* has now loaded the version and content of the second
C16_Witness ==
    /\ ret.call = "LoadFromLocal" /\ ret.obj = 1 /\ ret.ok
    /\ d.Content = ContentY /\ d2.Content = ContentY
    /\ d.Version = d2.Version
    /\ d.ConflictStrategy # d2.ConflictStrategy
    /\ \E i \in 1..Len(d.SnapshotHistory) :
          d.SnapshotHistory[i].Content = Serialize(ContentX)
    /\ \E i \in 1..Len(d2.SnapshotHistory) :
          d2.SnapshotHistory[i].Content = Serialize(ContentX)

\* C18 (SpecSave): when SetContent, ApplyPatch or RestoreFromSnapshot has
\* succeeded on a document with auto local save enabled, or
\* SetAutoLocalSave(true) has returned, and the disk took the writes, the
\* record in the file has the version and the content of the document.
C18_AutoSaveKeepsRecordCurrent ==
    [][ ( /\ ret'.call \in {"SetContent", "ApplyPatch", "RestoreFromSnapshot",
                             "SetAutoLocalSave"}
          /\ ret'.ok
          /\ d'.bAutoLocalSave
          /\ ret'.disk = "ok" )
          => ( /\ files'[Doc1].exists
               /\ RecordVersion(files') = d'.Version
               /\ RecordContent(files') = d'.Content ) ]_vars

\* C18 witness: with auto local save enabled a document was restored from
\* a snapshot older than its version, and the record has the restored
\* version and content
C18_Witness ==
    /\ ret.call = "RestoreFromSnapshot" /\ ret.ok /\ ret.disk = "ok"
    /\ d.bAutoLocalSave
    /\ d.Version = ret.arg.Version
    /\ \E i \in 1..Len(d.SnapshotHistory) : d.SnapshotHistory[i].Version > d.Version
    /\ RecordVersion(files) = d.Version
    /\ RecordContent(files) = d.Content

\* what the last call does on a disk that takes the writes
OnGoodDisk(call, arg) ==
    IF call = "SetContent" THEN SetContent(Ctx("ok"), arg) ELSE ApplyPatch(Ctx("ok"), arg)

\* C19 (SpecSave): when auto local save is enabled and the disk refuses the
\* save, a SetContent or ApplyPatch call that would succeed on a good disk
\* still returns success, with the version incremented and the content and
\* snapshot history it would have on a good disk; apart from the save that
\* did not happen (file untouched, nothing announced as saved) the only
\* difference is the last error, which is that of the save.
C19_FailedAutoSaveKeepsChange ==
    [][ ( /\ ret'.call \in {"SetContent", "ApplyPatch"}
          /\ d.bAutoLocalSave
          /\ ret'.disk \in {"nodir", "nowrite"}
          /\ OnGoodDisk(ret'.call, ret'.arg).ret )
          => LET good == OnGoodDisk(ret'.call, ret'.arg).c IN
             /\ ret'.ok
             /\ d'.Version = d.Version + 1
             /\ d' = [good.d EXCEPT !.LastErrorMessage = d'.LastErrorMessage]
             /\ d'.SnapshotHistory[Len(d'.SnapshotHistory)].Version = d'.Version
             /\ d'.LastErrorMessage = IF ret'.disk = "nodir"
                                      THEN "Failed to create directory"
                                      ELSE "Failed to save document to file"
             /\ files' = files
             /\ ev' = SelectSeq(good.ev, LAMBDA e : e.e # "SavedLocally") ]_vars

\* C19 witness: SetContent succeeded although its save was refused, and
\* the record still has the version of an earlier save
C19_Witness ==
    /\ ret.call = "SetContent" /\ ret.ok /\ ret.disk = "nowrite"
    /\ d.bAutoLocalSave
    /\ d.Content = ContentX
    /\ d.LastErrorMessage = "Failed to save document to file"
    /\ files[Doc1].exists
    /\ RecordVersion(files) < d.Version

\* C20 (SpecSync): SaveDocument of the sync manager, given a document, does
\* to the document and its file what SaveLocally does, with or without a
\* transport; with a transport it then hands it one save request with the
\* document's id, version and content, after the local save; without a
\* transport it makes no request, and the record is written all the same.
C20_LocalSaveFirst ==
    [][ (ret'.call = "SaveDocument" /\ ret'.arg # NullPtr)
          => LET l == SaveLocally(Ctx(ret'.disk))
                 DocumentData == [ DocumentID |-> d.DocumentID,
                                   Version    |-> d.Version,
                                   Content    |-> Serialize(d.Content),
                                   UpdatedAt  |-> now ]
             IN  /\ d' = l.c.d
                 /\ files' = l.c.files
                 /\ ret'.disk = "ok"
                      => /\ files'[Doc1].exists
                         /\ RecordVersion(files') = d.Version
                         /\ RecordContent(files') = d.Content
                 /\ IF sync.Transport
                    THEN /\ sync'.Requests = sync.Requests \cup {DocumentData}
                         /\ ev' = Append(l.c.ev, [e |-> "TransportSaveDocument",
                                                  DocumentData |-> DocumentData])
                    ELSE /\ sync' = sync
                         /\ ev' = l.c.ev ]_vars

\* C20 witness: no transport was ever asked to save, and SaveDocument has
\* written the record of a document that was given content
C20_Witness ==
    /\ ret.call = "SaveDocument" /\ ret.arg = DocumentPtr /\ ret.disk = "ok"
    /\ ~sync.Transport /\ sync.Requests = {}
    /\ d.Version > 1
    /\ files[Doc1].exists
    /\ RecordVersion(files) = d.Version
    /\ RecordContent(files) = d.Content
    /\ EventsOf("SavedLocally") # {} /\ EventsOf("TransportSaveDocument") = {}

\* C28 (SpecPatch), as claimed, under a strategy the default resolver
\* handles: a patch of one Replace operation raises at most one
\* conflict-detected notification, and if it raises one, the conflicting
\* local operation is the most recent recorded Replace at the path with
\* another value; the operation history afterwards is the old one with
\* exactly one operation appended, cut to its capacity.
C28_OneResolutionPerOperation ==
    [][ ( /\ ret'.call = "ApplyPatch" /\ ret'.ok
          /\ d.ConflictResolver.Strategy # "Custom"
          /\ Len(ret'.arg.Operations) = 1
          /\ ret'.arg.Operations[1].Type = "Replace" )
          => LET op        == ret'.arg.Operations[1]
                 H         == d.OperationHistory
                 matching  == {i \in 1..Len(H) : /\ H[i].Path = op.Path
                                                  /\ H[i].Type = "Replace"
                                                  /\ H[i].Value # op.Value}
                 detected  == {i \in 1..Len(ev') : ev'[i].e = "OnConflictDetected"}
             IN  /\ Cardinality(detected) <= 1
                 /\ \A i \in detected :
                       /\ matching # {}
                       /\ ev'[i].Conflict.LocalOperation
                            = H[CHOOSE m \in matching : \A n \in matching : n <= m]
                 /\ \E v \in {op.Value} \cup {H[i].Value : i \in 1..Len(H)} :
                       d'.OperationHistory
                         = LastN(Append(H, [op EXCEPT !.Value = v]),
                                 MaxOperationHistory) ]_vars

\* C29 (SpecPatch), as claimed: when a patch of one Replace operation meets
\* a recorded Replace at its path with another value and the resolver is
\* the default one under strategy Custom, which resolves nothing, the
\* operation is logged without a conflict (while logging is enabled) and
\* appended as it came to the operation history.
C29_UnresolvedAppliedVerbatim ==
    [][ ( /\ ret'.call = "ApplyPatch" /\ ret'.ok
          /\ d.ConflictResolver.Strategy = "Custom"
          /\ Len(ret'.arg.Operations) = 1
          /\ ret'.arg.Operations[1].Type = "Replace"
          /\ Conflicts(d.OperationHistory, ret'.arg.Operations[1]) )
          => LET op == ret'.arg.Operations[1] IN
             /\ d'.OperationHistory
                  = LastN(Append(d.OperationHistory, op), MaxOperationHistory)
             /\ logging
                  => \E i \in 1..Len(ev') :
                        /\ ev'[i].e = "LogOperation"
                        /\ ~ev'[i].bHadConflict
                        /\ ev'[i].NewValue = op.Value ]_vars

\* C30 (SpecRoundTrip), as claimed: when RestoreFromSnapshot succeeds, the
\* version is the snapshot's on return and in every document-changed
\* notification and every local save the call has made, and the operation
\* history is as before.
C30_RestoreNeverIncrements ==
    [][ (ret'.call = "RestoreFromSnapshot" /\ ret'.ok)
          => /\ d'.Version = ret'.arg.Version
             /\ d'.OperationHistory = d.OperationHistory
             /\ \A i \in 1..Len(ev') :
                   ev'[i].e \in {"OnDocumentChanged", "SavedLocally"}
                      => ev'[i].version = ret'.arg.Version ]_vars

\* C27 (SpecStrategy), as claimed: the strategy field is the strategy of
\* the installed resolver; right after SetConflictStrategy(s) the installed
\* resolver is a default resolver of strategy s; right after
\* SetConflictResolver with the custom resolver the strategy field is
\* Custom.
C27_StrategyFieldIsResolverStrategy ==
    /\ d.ConflictStrategy = d.ConflictResolver.Strategy
    /\ ret.call = "SetConflictStrategy" => d.ConflictResolver = DefaultResolver(ret.arg)
    /\ (ret.call = "SetConflictResolver" /\ ret.arg = CustomResolver)
          => d.ConflictStrategy = "Custom"

DocumentState(x) == <<x.Version, x.Content, x.OperationHistory, x.SnapshotHistory>>

\* C21 (SpecManager): a transport error reported for a save made through
\* SaveDocument raises a save-error notification for the document's id and
\* is followed by a SaveLocally attempt on that document (one that succeeds
\* on a good disk), and changes no document's version, content or
\* histories.
C21_TransportErrorSavesLocally ==
    [][ ( /\ ret'.call = "OnTransportError"
          /\ \E q \in sync.Requests : q.DocumentID = ret'.arg )
        => /\ \E i \in 1..Len(ev') :
                 ev'[i].e = "OnDocumentSaveError" /\ ev'[i].id = ret'.arg
           /\ ret'.disk = "ok"
                 => \E i \in 1..Len(ev') : ev'[i].e = "SavedLocally"
           /\ DocumentState(d') = DocumentState(d)
           /\ DocumentState(d2') = DocumentState(d2) ]_vars

\* C23 (SpecManager): a patch whose id is not a key of the registry is
\* dropped: no document and no file changes, the registry is as it was,
\* and nothing is saved or announced.
C23_UnknownPatchDropped ==
    [][ ( /\ ret'.call = "OnPatchReceived"
          /\ GetDocument(sync, ret'.arg.DocumentID) = 0 )
        => /\ d' = d /\ d2' = d2
           /\ files' = files
           /\ sync' = sync
           /\ ev' = <<>> ]_vars

\* a patch for the id of a document that is registered under another key
C23_Witness ==
    /\ ret.call = "OnPatchReceived"
    /\ GetDocument(sync, ret.arg.DocumentID) = 0
    /\ sync.Documents # <<>>
    /\ ret.arg.DocumentID = d.DocumentID

\* C24 (SpecManager): a patch for a registered document that ApplyPatch
\* accepts is applied (Version + 1, announced), then the document is saved
\* locally, then sync-complete is announced once, for the patch's id, as the
\* last thing; when the disk takes the write the record afterwards holds
\* the new version.
C24_PatchThenSaveThenSyncComplete ==
    [][ ( /\ ret'.call = "OnPatchReceived"
          /\ GetDocument(sync, ret'.arg.DocumentID) # 0
          /\ Obj(GetDocument(sync, ret'.arg.DocumentID)).DocumentID = ret'.arg.DocumentID )
        => LET k   == GetDocument(sync, ret'.arg.DocumentID)
               id  == ret'.arg.DocumentID
               new == IF k = 1 THEN d' ELSE d2'
               n   == Len(ev')
           IN  /\ new.Version = Obj(k).Version + 1
               /\ n >= 2
               /\ ev'[n] = [e |-> "OnSyncComplete", id |-> id]
               /\ \A i \in 1..(n - 1) : ev'[i].e # "OnSyncComplete"
               /\ \E i \in 1..(n - 1) :
                     ev'[i] = [e |-> "OnDocumentChanged", id |-> id,
                               version |-> new.Version]
               /\ ret'.disk = "ok"
                     => /\ ev'[n - 1] = [e |-> "SavedLocally", version |-> new.Version]
                        /\ \E i \in 1..(n - 2) : ev'[i].e = "OnDocumentChanged"
                        /\ TryGetNumberField(Deserialize(files'[id].text), "version").v
                              = new.Version ]_vars

C24_Witness ==
    /\ ret.call = "OnPatchReceived" /\ ret.disk = "ok"
    /\ ev # <<>> /\ ev[Len(ev)].e = "OnSyncComplete"
    /\ ret.arg.DocumentID = Doc1 /\ d.Version = 3
    /\ files[Doc1] # NoFile /\ RecordVersion(files) = 3

\* what a run of RecoverDocument leaves behind: a document-recovered
\* notification, or its error on a document that did not have it
RecoveryFailed == "Failed to recover document from any source"

RecoveryRan ==
    \/ \E i \in 1..Len(ev') : ev'[i].e = "OnDocumentRecovered"
    \/ d'.LastErrorMessage = RecoveryFailed /\ d.LastErrorMessage # RecoveryFailed
    \/ d2'.LastErrorMessage = RecoveryFailed /\ d2.LastErrorMessage # RecoveryFailed

TransportCallbacks ==
    {"OnPatchReceived", "OnTransportError", "OnDocumentLoaded", "OnDocumentSaved"}

\* a callback hands the transport nothing
NoTransportRequest ==
    /\ sync'.Requests \subseteq sync.Requests
    /\ sync'.Patches \subseteq sync.Patches
    /\ Len(sync'.Loads) <= Len(sync.Loads)
    /\ \A i \in 1..Len(ev') :
          ev'[i].e \notin {"TransportSaveDocument", "TransportSendPatch",
                           "TransportLoadDocument"}

\* the patch of the call is for a registered document that refuses it
PatchRefused ==
    /\ ret'.call = "OnPatchReceived"
    /\ GetDocument(sync, ret'.arg.DocumentID) # 0
    /\ Obj(GetDocument(sync, ret'.arg.DocumentID)).DocumentID # ret'.arg.DocumentID

\* C25 (SpecManager), as stated: RecoverDocument runs only in the calls
\* RecoverDocument and RecoverAllDocuments, and a transport callback hands
\* the transport no request.
C25_RecoveryOnlyOnRequest ==
    [][ /\ RecoveryRan => ret'.call \in {"RecoverDocument", "RecoverAllDocuments"}
        /\ ret'.call \in TransportCallbacks => NoTransportRequest ]_vars

\* C25 (SpecManager), amended: RecoverDocument runs only in the calls
\* RecoverDocument and RecoverAllDocuments and in OnPatchReceived when the
\* registered document refuses the patch, where it always runs; a transport
\* callback hands the transport no request.
C25_RecoveryOnRequestOrRefusedPatch ==
    [][ /\ RecoveryRan => \/ ret'.call \in {"RecoverDocument", "RecoverAllDocuments"}
                          \/ PatchRefused
        /\ PatchRefused
              => LET new == IF GetDocument(sync, ret'.arg.DocumentID) = 1
                            THEN d' ELSE d2'
                 IN  \/ \E i \in 1..Len(ev') : ev'[i].e = "OnDocumentRecovered"
                     \/ new.LastErrorMessage = RecoveryFailed
        /\ ret'.call \in TransportCallbacks => NoTransportRequest ]_vars

\* a refused patch has made the document recover from its snapshot
C25_Witness ==
    /\ ret.call = "OnPatchReceived"
    /\ GetDocument(sync, ret.arg.DocumentID) = 1
    /\ d.DocumentID # ret.arg.DocumentID
    /\ \E i \in 1..Len(ev) : ev[i].e = "OnDocumentRecovered"

\* the document x resolves its conflicts according to Strategy: it reports
\* Strategy and its resolver is of that strategy, the default resolver
\* unless the strategy is Custom
ResolvesBy(x, Strategy) ==
    /\ x.ConflictStrategy = Strategy
    /\ x.ConflictResolver.Strategy = Strategy
    /\ Strategy # "Custom" => x.ConflictResolver.kind = "Default"

\* C26 (SpecRegistry): SetDefaultConflictStrategy(s) leaves every document
\* of the registry reporting s and resolving by s, and a document that
\* CreateDocument or a completed load registers gets the default strategy
\* of the manager.
C26_DefaultStrategyReachesRegistry ==
    [][ /\ ret'.call = "SetDefaultConflictStrategy"
              => /\ sync'.DefaultConflictStrategy = ret'.arg
                 /\ \A i \in 1..Len(sync.Documents) :
                       ResolvesBy(IF sync.Documents[i].doc = 1 THEN d' ELSE d2',
                                  ret'.arg)
        /\ ret'.call = "CreateDocument" /\ ret'.arg = 1
              => ResolvesBy(d', sync.DefaultConflictStrategy)
        /\ ret'.call = "OnDocumentLoaded"
              => ResolvesBy(d2', sync.DefaultConflictStrategy) ]_vars

\* C31 (SpecStorage): when RecoverDocument succeeds from the snapshot, the
\* document has the content and the version of the snapshot that was the
\* newest of SnapshotHistory when the call began.
C31_SnapshotRecoveryRestoresNewest ==
    [][ ( /\ ret'.call = "RecoverDocument" /\ ret'.ok
          /\ \E i \in 1..Len(ev') :
                ev'[i] = [e |-> "OnDocumentRecovered", source |-> "Snapshot"] )
        => LET Newest == d.SnapshotHistory[Len(d.SnapshotHistory)]
           IN  /\ d'.Content = Deserialize(Newest.Content)
               /\ d'.Version = Newest.Version ]_vars

C33_PatchIsAtomic ==
    [][ ret'.call = "ApplyPatch"
        => IF ~ret'.ok
           THEN DocumentState(d') = DocumentState(d)
           ELSE LET Ops == ret'.arg.Operations
                    n   == Len(Ops)
                    H   == d'.OperationHistory
                    m   == Len(d.OperationHistory) + n
                IN  /\ d'.Version = d.Version + 1
                    /\ Len(H) = IF m > MaxOperationHistory
                                THEN MaxOperationHistory ELSE m
                    /\ \A k \in 1..n :
                          Len(H) - n + k >= 1
                            => /\ H[Len(H) - n + k].Type = Ops[k].Type
                               /\ H[Len(H) - n + k].Path = Ops[k].Path
                               /\ H[Len(H) - n + k].Timestamp = Ops[k].Timestamp ]_vars

\* C34 (SpecLoad): LoadDocument hands the transport nothing for an id that
\* is registered, and a request for an id that is not, also while a load of
\* that id is outstanding; every completion of a load builds a new document
\* object from its data and leaves the registry with exactly one entry for
\* the id, which is that object, and the other entries as they were.
C34_LastCompletionIsRegistered ==
    [][ /\ ( ret'.call = "LoadDocument" /\ GetDocument(sync, ret'.arg) # 0 )
              => sync' = sync /\ ev' = <<>>
        /\ ( ret'.call = "LoadDocument" /\ GetDocument(sync, ret'.arg) = 0
                                        /\ sync.Transport )
              => /\ ev' = <<[e |-> "TransportLoadDocument", id |-> ret'.arg]>>
                 /\ sync'.Loads = Append(sync.Loads, ret'.arg)
        /\ ret'.call = "OnDocumentLoaded"
              => LET id  == ret'.arg.DocumentID
                     k   == GetDocument(sync', id)
                     new == IF k = 1 THEN d' ELSE d2'
                     old == IF k = 1 THEN d ELSE d2
                 IN  /\ Cardinality({i \in 1..Len(sync'.Documents) :
                                        sync'.Documents[i].key = id}) = 1
                     /\ k # 0 /\ k # GetDocument(sync, id)
                     /\ old = NewDocument
                     /\ new.DocumentID = id
                     /\ new.Content = IF Deserialize(ret'.arg.Content) # NullPtr
                                      THEN Deserialize(ret'.arg.Content)
                                      ELSE NewDocument.Content
                     /\ \A i \in 1..Len(sync.Documents) :
                           sync.Documents[i].key # id
                             => \E j \in 1..Len(sync'.Documents) :
                                   sync'.Documents[j] = sync.Documents[i] ]_vars

\* the second completion of two loads of one id has replaced the document
\* that the first had registered
C34_Witness ==
    /\ ret.call = "OnDocumentLoaded"
    /\ GetDocument(sync, Doc1) = 1
    /\ d2.DocumentID = Doc1 /\ d2.Version = 2
    /\ d.Content # d2.Content
    /\ Len(sync.Documents) = 1

\* C35: GetValueAtPath returns nothing when a key is missing, when an array
\* index is out of range, or when a segment that is not the last one
\* resolves to a scalar, and it returns the whole root for the empty path.
RECURSIVE ResolvesToNothing(_, _, _)
\* walking Parts from part i at cur meets a missing key, an index out of
\* range, or a scalar with segments still to come
ResolvesToNothing(cur, Parts, i) ==
    IF i > Len(Parts) THEN FALSE
    ELSE CASE cur.t = "obj" ->
                IF ~HasField(cur, Chars(Parts[i])) THEN TRUE
                ELSE ResolvesToNothing(GetField(cur, Chars(Parts[i])), Parts, i + 1)
           [] cur.t = "arr" ->
                IF DigitValue(Parts[i][1]) < 0 THEN FALSE
                ELSE IF Atoi(Parts[i]) >= Len(cur.e) THEN TRUE
                ELSE ResolvesToNothing(cur.e[Atoi(Parts[i]) + 1], Parts, i + 1)
           [] OTHER -> TRUE

C35_PathResolution ==
    ret.call = "GetValueAtPath" =>
        /\ ResolvesToNothing(ret.arg.JsonObject, ret.arg.Parts, 1) => ret.Value = NullPtr
        /\ ret.arg.Path = <<>> => ret.Value = ret.arg.JsonObject

\* the outcome of ApplyPatch in the state before the last call, had the
\* patch named the base version b
OutcomeWithBaseVersion(b) ==
    ApplyPatch(Ctx(ret'.disk), [ret'.arg EXCEPT !.BaseVersion = b])

\* the last call was ApplyPatch and its outcome is the one of the same patch
\* under every other base version
BaseVersionIgnored ==
    \A b \in BaseVersions :
       \E r \in {OutcomeWithBaseVersion(b)} :
          /\ r.ret = ret'.ok
          /\ r.c.d = d'
          /\ r.c.files = files'
          /\ r.c.ev = ev'

RECURSIVE ConflictFree(_, _)
\* no operation of ops is a Replace that meets a recorded Replace at its
\* path with another value, the earlier operations of ops being recorded
ConflictFree(History, ops) ==
    \/ ops = <<>>
    \/ /\ ~(Head(ops).Type = "Replace" /\ Conflicts(History, Head(ops)))
       /\ ConflictFree(LastN(Append(History, Head(ops)), MaxOperationHistory), Tail(ops))

\* C36 (as claimed): ApplyPatch ignores the base version of the patch, and
\* every patch addressed to the document, stale or delivered before, raises
\* the version by 1 and has its operations appended to the history.
C36_StalePatchAppliedInFull ==
    [][ret'.call = "ApplyPatch" =>
         /\ BaseVersionIgnored
         /\ ret'.arg.DocumentID = d.DocumentID =>
               /\ d'.Version = d.Version + 1
               /\ d'.OperationHistory =
                     LastN(d.OperationHistory \o ret'.arg.Operations, MaxOperationHistory)]_vars

\* C36 (amended): ApplyPatch ignores the base version of the patch, and
\* every patch addressed to the document, stale or delivered before, raises
\* the version by 1; its operations are appended to the history whenever
\* none of them is found in conflict.
C36_StalePatchProcessedAgain ==
    [][ret'.call = "ApplyPatch" =>
         /\ BaseVersionIgnored
         /\ ret'.arg.DocumentID = d.DocumentID =>
               /\ d'.Version = d.Version + 1
               /\ ConflictFree(d.OperationHistory, ret'.arg.Operations) =>
                     d'.OperationHistory =
                        LastN(d.OperationHistory \o ret'.arg.Operations, MaxOperationHistory)]_vars

\* a patch based on a version older than the document's was delivered a
\* second time, and its operation is in the history twice
C36_Witness ==
    /\ ret.call = "ApplyPatch" /\ ret.ok
    /\ ret.arg.BaseVersion + 1 < d.Version
    /\ Len(ret.arg.Operations) = 1
    /\ Len(d.OperationHistory) >= 2
    /\ d.OperationHistory[Len(d.OperationHistory)] = ret.arg.Operations[1]
    /\ d.OperationHistory[Len(d.OperationHistory) - 1] = ret.arg.Operations[1]

\* the newest entry of SnapshotHistory of document x holds the
\* serialization of its content
NewestSnapshotIsContent(x) ==
    /\ x.SnapshotHistory # <<>>
    /\ x.SnapshotHistory[Len(x.SnapshotHistory)].Content = Serialize(x.Content)

\* the last call recovered the document from its newest snapshot
RecoveredFromSnapshot ==
    /\ ret'.call = "RecoverDocument" /\ ret'.ok
    /\ \E i \in 1..Len(ev') :
          ev'[i] = [e |-> "OnDocumentRecovered", source |-> "Snapshot"]

\* C37 (SpecStorage): after every call on an initialized document the newest
\* entry of SnapshotHistory holds the serialization of the current content,
\* and a recovery from the snapshot leaves the content as it was.
C37_NewestSnapshotIsContent ==
    [][ /\ d'.DocumentID # <<>> => NewestSnapshotIsContent(d')
        /\ RecoveredFromSnapshot => d'.Content = d.Content ]_vars

\* the document was recovered from its newest snapshot while it held the
\* content {"c":"X"} and a file that could not be read
C37_Witness ==
    /\ ret.call = "RecoverDocument" /\ ret.ok /\ ret.disk = "noread"
    /\ \E i \in 1..Len(ev) :
          ev[i] = [e |-> "OnDocumentRecovered", source |-> "Snapshot"]
    /\ d.Content = ContentX
    /\ files[Doc1].exists

\* the last call was a RecoverDocument that succeeded from the local file
\* and left version and content as they were
RecoveredInPlace ==
    /\ ret'.ok
    /\ \E i \in 1..Len(ev') :
          ev'[i] = [e |-> "OnDocumentRecovered", source |-> "LocalStorage"]
    /\ \A i \in 1..Len(ev') :
          ev'[i].e = "OnDocumentRecovered" => ev'[i].source = "LocalStorage"
    /\ d'.Version = d.Version
    /\ d'.Content = d.Content

C39_LoadedVersionIsLocal ==
    [][ /\ ( ret'.call = "OnDocumentLoaded" /\ Deserialize(ret'.arg.Content) # NullPtr )
              => LET k   == GetDocument(sync', ret'.arg.DocumentID)
                     new == IF k = 1 THEN d' ELSE d2'
                 IN  /\ k # 0
                     /\ new.Version = 2
                     /\ Len(new.SnapshotHistory) = 2
        /\ ( ret'.call = "SyncDocument" /\ ret'.arg # 0 /\ sync.Transport )
              => /\ Len(ev') = 1
                 /\ ev'[1].e = "TransportSendPatch"
                 /\ ev'[1].Patch.BaseVersion = Obj(ret'.arg).Version ]_vars

\* a load whose data carries a version beyond 2 has been completed, and the
\* document it registered has version 2 and two snapshots
C39_Witness ==
    /\ ret.call = "OnDocumentLoaded"
    /\ ret.arg.Version = MaxVersion + 1
    /\ ret.arg.Content = Serialize(ContentX)
    /\ GetDocument(sync, ret.arg.DocumentID) # 0
    /\ Obj(GetDocument(sync, ret.arg.DocumentID)).Content = ContentX
    /\ Obj(GetDocument(sync, ret.arg.DocumentID)).Version = 2
    /\ Len(Obj(GetDocument(sync, ret.arg.DocumentID)).SnapshotHistory) = 2

\* the message that LoadFromLocal leaves when it is called in the state
\* before the last call, on the disk of that call
MessageOfLoad == LoadFromLocal(Ctx(ret'.disk)).c.d.LastErrorMessage

\* the last call saved automatically on a disk that refused the write
FailedAutoSave == d'.bAutoLocalSave /\ ret'.disk \in {"nodir", "nowrite"}

\* the last call was one of the calls named by C40 and reported success
SucceededCall ==
    /\ ret'.call \in {"SetContent", "ApplyPatch", "SaveLocally", "LoadFromLocal"}
    /\ ret'.ok

\* C40 (as claimed): no call clears the last error message; after a
\* recovery from the snapshot it is the message of the failed load; a
\* successful SetContent, ApplyPatch, SaveLocally or LoadFromLocal leaves it
\* as it was.
C40_ErrorOutlivesSuccess ==
    [][ /\ d.LastErrorMessage # "" => d'.LastErrorMessage # ""
        /\ RecoveredFromSnapshot
              => \E m \in {MessageOfLoad} : m # "" /\ d'.LastErrorMessage = m
        /\ SucceededCall => d'.LastErrorMessage = d.LastErrorMessage ]_vars

\* C40 (amended): no call clears the last error message, and it changes
\* only in a call that fails, in a recovery from the snapshot, or in a call
\* whose automatic local save fails; unless such a save fails, it is the
\* message of the failed load after a recovery from the snapshot, and a
\* successful SetContent, ApplyPatch, SaveLocally or LoadFromLocal leaves it
\* as it was.
C40_ErrorOutlivesCleanSuccess ==
    [][ /\ d.LastErrorMessage # "" => d'.LastErrorMessage # ""
        /\ d'.LastErrorMessage # d.LastErrorMessage
              => ~ret'.ok \/ RecoveredFromSnapshot \/ FailedAutoSave
        /\ (RecoveredFromSnapshot /\ ~FailedAutoSave)
              => \E m \in {MessageOfLoad} : m # "" /\ d'.LastErrorMessage = m
        /\ (SucceededCall /\ ~FailedAutoSave)
              => d'.LastErrorMessage = d.LastErrorMessage ]_vars

\* SetContent has succeeded, saving automatically, on a document whose
\* last error message is still the one of a local load that failed
C40_Witness ==
    /\ ret.call = "SetContent" /\ ret.ok /\ ret.disk = "ok"
    /\ d.bAutoLocalSave
    /\ d.LastErrorMessage = "Failed to load document from file"
====
